---- MODULE Spec2Model ----
(***************************************************************************)
(* A model of the Turing doodle's core: the animation scheduler             *)
(* (turing.anim), the program and tape models and the Simulator that steps  *)
(* a program through the scheduler.                                         *)
(*                                                                          *)
(* The JavaScript is single threaded: every handler (a host frame, a user   *)
(* event, a timer) runs to completion.  Each handler is one action.  The    *)
(* handlers are written as operators over a "world" record w holding the    *)
(* objects, so that a callback invoked from the scheduler's drain loop can  *)
(* call back into the scheduler and the simulator, as the code does.        *)
(*                                                                          *)
(* Rendering (sprites, CSS, the animation frames the tape and the program   *)
(* schedule to draw themselves) is left out: those callbacks only touch the *)
(* DOM, never call cancel and never call into the simulator.                *)
(***************************************************************************)
EXTENDS Integers, Sequences, FiniteSets, TLC

VARIABLES
  anim,     \* turing.anim: the scheduler's module state
  sim,      \* the turing.Simulator instance
  program,  \* the turing.Program instance (and the global track dimensions)
  tape,     \* the turing.Tape instance
  game,     \* the game around them: the play button, the sleep timer
  obs       \* history variables: what an observer of the callbacks has seen

vars == <<anim, sim, program, tape, game, obs>>

(***************************************************************************)
(* Bounds of the model.                                                     *)
(***************************************************************************)
MaxTick == 7       \* frames are processed while curTick_ < MaxTick
MaxEventId == 4    \* handlers that schedule are enabled while eventId_ <= MaxEventId
MaxRuns == 2       \* run() calls from the environment that take effect
MaxLoops == 2      \* frame-loop chains requested and not yet ended

(***************************************************************************)
(* Time.  msPerFrame_ is 1000/60 ms multiplied by 1.2 up to six times and   *)
(* clamped to 1000/20; a period is held as a whole number of 1/MsScale ms,  *)
(* which is exact for each of those values.                                 *)
(***************************************************************************)
MsScale == 3 * (5 * 5 * 5 * 5 * 5 * 5)

MAX_FPS_MS_ == (1000 * MsScale) \div 60

MIN_FPS_MS_ == (1000 * MsScale) \div 20

\* turing.SpeedSetting
SLOW == 0
TUTORIAL == 1
NORMAL == 2
FAST == 3
LUDICROUS == 4

SPEED_CONFIG ==
  [s \in 0..4 |->
     CASE s = 0 -> [stepTime |-> 750, tapeTime |-> 600, emptyStepTime |-> 400, branchTime |-> 850]
       [] s = 1 -> [stepTime |-> 650, tapeTime |-> 500, emptyStepTime |-> 200, branchTime |-> 750]
       [] s = 2 -> [stepTime |-> 450, tapeTime |-> 300, emptyStepTime |-> 200, branchTime |-> 550]
       [] s = 3 -> [stepTime |-> 250, tapeTime |-> 200, emptyStepTime |-> 100, branchTime |-> 250]
       [] s = 4 -> [stepTime |-> 100, tapeTime |-> 50, emptyStepTime |-> 100, branchTime |-> 100]]

SOMEWHAT_BORING_REPEAT_COUNT == 4
VERY_BORING_REPEAT_COUNT == 6

\* turing.NUM_PROGRAM_TRACKS.normalMode and turing.NUM_OPS_PER_TRACK.normalMode
NUM_PROGRAM_TRACKS_normalMode == 2
NUM_OPS_PER_TRACK_normalMode == 8
NUM_PROGRAM_TRACKS_bonusMode == 3
NUM_OPS_PER_TRACK_bonusMode == 13

\* turing.GAME_PROGRAM_STEP_LIMIT
GAME_PROGRAM_STEP_LIMIT == 40

\* turing.NUM_SQUARES
NUM_SQUARES == 13

(***************************************************************************)
(* Callbacks.  A closure handed to the scheduler is a record: fn names the  *)
(* code it runs and arg its captured value.                                 *)
(*   step        goog.bind(Simulator.step, simulator)                       *)
(*   nop         a client callback with no effect on the modelled state     *)
(*   delay       a client callback that schedules a nop after arg ms        *)
(*   cancel      a client callback that cancels event id arg                *)
(*   again       a client callback that schedules itself again after 0 ms   *)
(*   popOutPlay  the closure turing.makeInteractive_ schedules: it pops the *)
(*               play button out and schedules lightOps after arg ms        *)
(*   lightOps    the closure that makes the tracks interactive              *)
(*   runProgram  the closure the play button's callback schedules: it runs  *)
(*               the program, turing.finishProgramRun_ its continuation     *)
(*   dimPlay     the closure turing.finishProgramRun_ schedules             *)
(*   checkTape   turing.checkTape_: the check of the tape, which the model  *)
(*               of the scheduler notes and does not walk through           *)
(*   setupProgram  the closure of turing.startGame_ that calls              *)
(*               turing.setupProgram_ for the current program               *)
(*   progress    the closure of turing.startGame_ that scrolls the tape     *)
(*               while the deferred sprite loads                            *)
(*   setString   the closure of turing.setupProgram_ that sets the tape of  *)
(*               PROGRAMS[arg]                                              *)
(*   setTarget   the closure of turing.setupProgram_ that shows the goal:   *)
(*               it draws, with no effect on the modelled state             *)
(*   programReady  the closure of turing.setupProgram_ that shows the       *)
(*               incorrect program of PROGRAMS[arg] and makes it playable   *)
(* A completion continuation (opt_doneCallback) is a record: run is the     *)
(* number of the run() call it was passed to, kind what it does:            *)
(*   none        no continuation was passed (null)                          *)
(*   note        returns without touching scheduler or simulator            *)
(*   rerun       calls simulator.run again, passing a note continuation     *)
(*   finish      turing.finishProgramRun_                                   *)
(***************************************************************************)
StepCallback == [fn |-> "step", arg |-> 0]
NopCallback == [fn |-> "nop", arg |-> 0]
AgainCallback == [fn |-> "again", arg |-> 0]
LightOpsCallback == [fn |-> "lightOps", arg |-> 0]
RunProgramCallback == [fn |-> "runProgram", arg |-> 0]
DimPlayCallback == [fn |-> "dimPlay", arg |-> 0]
CheckTapeCallback == [fn |-> "checkTape", arg |-> 0]
SetupProgramCallback == [fn |-> "setupProgram", arg |-> 0]
ProgressCallback == [fn |-> "progress", arg |-> 0]
SetTargetCallback == [fn |-> "setTarget", arg |-> 0]
NoDoneCallback == [run |-> 0, kind |-> "none"]

NoTimer == -1

(***************************************************************************)
(* turing.anim                                                              *)
(***************************************************************************)
\* turing.anim.getNumTicks_: Math.ceil(duration / msPerFrame_)
getNumTicks_(w, duration) ==
  (duration * MsScale + w.anim.msPerFrame_ - 1) \div w.anim.msPerFrame_

\* turing.anim.delayTicks: the event id it returns is w.anim.eventId_
delayTicks(w, callback, ticksToWait) ==
  [w EXCEPT
     !.anim.queue_ = Append(@, [ticks |-> w.anim.curTick_ + ticksToWait,
                                call |-> callback,
                                eventId |-> w.anim.eventId_]),
     !.anim.eventId_ = @ + 1,
     !.anim.queueDirty_ = TRUE]

\* turing.anim.delay
delay(w, callback, duration) == delayTicks(w, callback, getNumTicks_(w, duration))

\* Array.prototype.splice(i, 1) on a sequence, i counted from 1
RemoveAt(q, i) == SubSeq(q, 1, i - 1) \o SubSeq(q, i + 1, Len(q))

\* the for loop of turing.anim.cancel: the first index holding eventId, or 0
FirstIndexOf(q, eventId) ==
  IF \E i \in 1..Len(q) : q[i].eventId = eventId
    THEN CHOOSE i \in 1..Len(q) :
           /\ q[i].eventId = eventId
           /\ \A j \in 1..(i - 1) : q[j].eventId # eventId
    ELSE 0

FiredIds(w) == {w.obs.fired[k].eventId : k \in 1..Len(w.obs.fired)}

QueueIds(q) == {q[k].eventId : k \in 1..Len(q)}

\* a cancel whose loop stops one short of the end of the queue
cancel_missesLast(w, eventId) ==
  LET q == w.anim.queue_
      i == FirstIndexOf(SubSeq(q, 1, Len(q) - 1), eventId)
  IN IF i = 0 THEN w ELSE [w EXCEPT !.anim.queue_ = RemoveAt(@, i)]

\* turing.anim.cancel
cancel(w, eventId) ==
  LET i == FirstIndexOf(w.anim.queue_, eventId)
  IN IF i = 0 THEN w ELSE [w EXCEPT !.anim.queue_ = RemoveAt(@, i)]

\* a client's call of turing.anim.cancel, noted by the observer: the id it
\* was called with and, when that event was pending and not yet called, its
\* due tick, the tick of the call and whether the call came from inside a
\* callback.  A careful client (obs.careful) first looks whether the event
\* is still pending and does not call cancel when it is not.
clientCancel(w, eventId, inside) ==
  LET q == w.anim.queue_
      pending == eventId \in QueueIds(q) /\ eventId \notin FiredIds(w)
      noted == [w EXCEPT
                  !.obs.cancelCalled = @ \cup {eventId},
                  !.obs.cancelledPending =
                     IF pending
                       THEN @ \cup {[eventId |-> eventId,
                                     ticks |-> q[FirstIndexOf(q, eventId)].ticks,
                                     at |-> w.anim.curTick_,
                                     inside |-> inside]}
                       ELSE @]
  IN IF w.obs.careful /\ ~pending THEN noted ELSE cancel(noted, eventId)

\* a comparator that orders by event id alone
FrameBefore_byIdOnly(a, b) == a.eventId < b.eventId

\* the comparator of the queue sort in turing.anim.loop_
FrameBefore(a, b) ==
  IF a.ticks = b.ticks THEN a.eventId < b.eventId ELSE a.ticks < b.ticks

RECURSIVE SortQueue(_)
\* Array.prototype.sort with that comparator (event ids in the queue are distinct)
SortQueue(q) ==
  IF Len(q) <= 1 THEN q
  ELSE LET m == CHOOSE i \in 1..Len(q) :
                  \A j \in 1..Len(q) : j = i \/ FrameBefore(q[i], q[j])
       IN <<q[m]>> \o SortQueue(RemoveAt(q, m))

\* turing.anim.resetFpsController_
resetFpsController_(w) ==
  [w EXCEPT !.anim.tooSlowTicks_ = 0, !.anim.lastTickStartTime_ = 0]

\* a stop that also empties the queue
animStop_clearsQueue(w) ==
  resetFpsController_([w EXCEPT !.anim.stopped_ = TRUE, !.anim.queue_ = <<>>])

\* turing.anim.stop
animStop(w) == resetFpsController_([w EXCEPT !.anim.stopped_ = TRUE])

\* turing.anim.start: a new frame-loop chain is requested by loop_
animStart(w) ==
  [w EXCEPT !.anim.stopped_ = FALSE, !.anim.loops = @ + 1]

\* a throttle that speeds the frame rate up by 20% where it is to slow it down
throttleFrameRate_speedsUp(w, slow) ==
  LET a == w.anim
      measured == a.curTick_ > 30 /\ a.lastTickStartTime_ # 0
      counted == IF slow THEN a.tooSlowTicks_ + 1 ELSE a.tooSlowTicks_ \div 2
      a1 == IF ~measured THEN a
            ELSE IF counted > 20
              THEN [a EXCEPT !.msPerFrame_ = (@ * 5) \div 6, !.tooSlowTicks_ = 0]
              ELSE [a EXCEPT !.tooSlowTicks_ = counted]
  IN [w EXCEPT !.anim = [a1 EXCEPT !.lastTickStartTime_ = 1]]

\* a throttle that takes the larger of MIN_FPS_MS_ and the slowed period
throttleFrameRate_maxForMin(w, slow) ==
  LET a == w.anim
      measured == a.curTick_ > 30 /\ a.lastTickStartTime_ # 0
      counted == IF slow THEN a.tooSlowTicks_ + 1 ELSE a.tooSlowTicks_ \div 2
      a1 == IF ~measured THEN a
            ELSE IF counted > 20
              THEN [a EXCEPT !.msPerFrame_ =
                                IF MIN_FPS_MS_ > (@ * 6) \div 5 THEN MIN_FPS_MS_ ELSE (@ * 6) \div 5,
                             !.tooSlowTicks_ = 0]
              ELSE [a EXCEPT !.tooSlowTicks_ = counted]
  IN [w EXCEPT !.anim = [a1 EXCEPT !.lastTickStartTime_ = 1]]

\* turing.anim.throttleFrameRate_; slow: tickLength >= 1.05 * msPerFrame_.
\* lastTickStartTime_ is held as 0 (reset) or 1 (a time was recorded).
throttleFrameRate_(w, slow) ==
  LET a == w.anim
      measured == a.curTick_ > 30 /\ a.lastTickStartTime_ # 0
      counted == IF slow THEN a.tooSlowTicks_ + 1 ELSE a.tooSlowTicks_ \div 2
      a1 == IF ~measured THEN a
            ELSE IF counted > 20
              THEN [a EXCEPT !.msPerFrame_ =
                                IF MIN_FPS_MS_ < (@ * 6) \div 5 THEN MIN_FPS_MS_ ELSE (@ * 6) \div 5,
                             !.tooSlowTicks_ = 0]
              ELSE [a EXCEPT !.tooSlowTicks_ = counted]
  IN [w EXCEPT !.anim = [a1 EXCEPT !.lastTickStartTime_ = 1]]

(***************************************************************************)
(* turing.Program                                                           *)
(***************************************************************************)
\* turing.switchProgramsToBonusMode (numTracks_ and numOpsPerTrack_ are
\* globals of the script, held here with the one Program there is)
switchProgramsToBonusMode(w) ==
  [w EXCEPT !.program.numTracks_ = NUM_PROGRAM_TRACKS_bonusMode,
            !.program.numOpsPerTrack_ = NUM_OPS_PER_TRACK_bonusMode]

\* turing.switchProgramsToNormalMode
switchProgramsToNormalMode(w) ==
  [w EXCEPT !.program.numTracks_ = NUM_PROGRAM_TRACKS_normalMode,
            !.program.numOpsPerTrack_ = NUM_OPS_PER_TRACK_normalMode]

\* a setNextPos that takes the position one past the end of a track
setNextPos_inclusiveEnd(w, track, pos) ==
  IF /\ track >= 0
     /\ track < w.program.numActiveTracks_
     /\ pos >= 0
     /\ pos <= w.program.numOpsPerTrack_
    THEN [w EXCEPT !.program.nextTrack_ = track,
                   !.program.nextTrackPos_ = pos,
                   !.program.nextPosIsEnd_ = FALSE]
    ELSE [w EXCEPT !.program.nextPosIsEnd_ = TRUE]

\* turing.Program.prototype.setNextPos
setNextPos(w, track, pos) ==
  IF /\ track >= 0
     /\ track < w.program.numActiveTracks_
     /\ pos >= 0
     /\ pos < w.program.numOpsPerTrack_
    THEN [w EXCEPT !.program.nextTrack_ = track,
                   !.program.nextTrackPos_ = pos,
                   !.program.nextPosIsEnd_ = FALSE]
    ELSE [w EXCEPT !.program.nextPosIsEnd_ = TRUE]

\* turing.Program.prototype.goToNextPos
goToNextPos(w) ==
  IF ~w.program.nextPosIsEnd_
    THEN [w EXCEPT !.program.curTrack_ = w.program.nextTrack_,
                   !.program.curTrackPos_ = w.program.nextTrackPos_]
    ELSE w

\* turing.Program.prototype.getCurOp: an op is the sequence of its characters;
\* a slot past the end of the track's array reads undefined, which the
\* simulator treats as it treats the empty op
getCurOp(w) ==
  LET p == w.program IN
  IF /\ p.curTrack_ + 1 \in DOMAIN p.tracks_
     /\ p.curTrackPos_ + 1 \in DOMAIN p.tracks_[p.curTrack_ + 1]
    THEN p.tracks_[p.curTrack_ + 1][p.curTrackPos_ + 1]
    ELSE <<>>

\* turing.Program.prototype.change (tracks_[i].setOps(trackOps[i] || [])).
\* The Program has the tracks its constructor made; where numTracks_ has
\* grown since, the loop fails at the first track that is not there, with
\* the assignments before it made.
change(w, trackOps) ==
  [w EXCEPT !.program.curTrack_ = 0,
            !.program.curTrackPos_ = 0,
            !.program.nextTrack_ = 0,
            !.program.nextTrackPos_ = 0,
            !.program.nextPosIsEnd_ = FALSE,
            !.program.numActiveTracks_ = Len(trackOps),
            !.program.tracks_ = [i \in DOMAIN w.program.tracks_ |->
                                   IF i > w.program.numTracks_ THEN w.program.tracks_[i]
                                   ELSE IF i <= Len(trackOps) THEN trackOps[i] ELSE <<>>]]

\* turing.Program.prototype.setInteractive: the program and each of its
\* tracks take the same value
setInteractive(w, interactive) == [w EXCEPT !.program.interactive_ = interactive]

(***************************************************************************)
(* turing.Tape                                                              *)
(***************************************************************************)
\* a getCurSymbol that reads an unwritten cell as 0
getCurSymbol_unwrittenIsZero(w) ==
  IF w.tape.pos_ \in DOMAIN w.tape.contents_ /\ w.tape.contents_[w.tape.pos_] # ""
    THEN w.tape.contents_[w.tape.pos_]
    ELSE "0"

\* turing.Tape.prototype.getCurSymbol: contents_[pos_] || '_'
getCurSymbol(w) ==
  IF w.tape.pos_ \in DOMAIN w.tape.contents_ /\ w.tape.contents_[w.tape.pos_] # ""
    THEN w.tape.contents_[w.tape.pos_]
    ELSE "_"

\* a print that writes 1 whatever the symbol
print_alwaysOne(w, symbol) ==
  [w EXCEPT !.tape.contents_ =
              [i \in (DOMAIN @) \cup {w.tape.pos_} |->
                 IF i = w.tape.pos_ THEN "1" ELSE @[i]],
            !.tape.maxWrittenPosition_ = IF w.tape.pos_ > @ THEN w.tape.pos_ ELSE @]

\* a print that writes on the cell right of the head
print_rightOfHead(w, symbol) ==
  [w EXCEPT !.tape.contents_ =
              [i \in (DOMAIN @) \cup {w.tape.pos_ + 1} |->
                 IF i = w.tape.pos_ + 1 THEN symbol ELSE @[i]],
            !.tape.maxWrittenPosition_ = IF w.tape.pos_ > @ THEN w.tape.pos_ ELSE @]

\* turing.Tape.prototype.print
print(w, symbol) ==
  [w EXCEPT !.tape.contents_ =
              [i \in (DOMAIN @) \cup {w.tape.pos_} |->
                 IF i = w.tape.pos_ THEN symbol ELSE @[i]],
            !.tape.maxWrittenPosition_ = IF w.tape.pos_ > @ THEN w.tape.pos_ ELSE @]

\* turing.Tape.prototype.scanLeft
scanLeft(w) == [w EXCEPT !.tape.pos_ = @ - 1]

\* turing.Tape.prototype.scanRight
scanRight(w) == [w EXCEPT !.tape.pos_ = @ + 1]

(***************************************************************************)
(* The catalog of programs.  A string is the sequence of its characters.    *)
(* PROGRAMS[k + 1] is turing.PROGRAMS[k]: the demo first, then the twelve   *)
(* puzzles; stepLimit is 0 where the entry has none.                        *)
(***************************************************************************)
PROGRAMS ==
  <<
   [tape |-> <<>>,
    goal |-> <<>>,
    source |-> << <<"D", "0", " ", "D", "_", " ", "0", " ", " ", "L", " ", " ", "B", "4">>,
                  <<".", " ", " ", "1", " ", " ", "R", " ", " ", "U", "_", " ", "B", "2">> >>,
    stepLimit |-> 0, tutorial |-> FALSE],
   [tape |-> <<"0", "0", "0", "1", "0">>,
    goal |-> <<"0", "1", "0", "1", "1">>,
    source |-> << <<"L", " ", "0", "(", "1", ")", " ", "R", " ", "R", " ", "R", " ", "0", "(", "1", ")">> >>,
    stepLimit |-> 0, tutorial |-> TRUE],
   [tape |-> <<"0", "_", "0", "1", "1">>,
    goal |-> <<"0", "0", "0", "1", "1">>,
    source |-> << <<"L", " ", "D", "0", "(", "D", "_", ")", " ", "1">>,
                  <<".", " ", "0">> >>,
    stepLimit |-> 0, tutorial |-> TRUE],
   [tape |-> <<"0", "1", "0", "1", "1">>,
    goal |-> <<"0", "0", "0", "1", "1">>,
    source |-> << <<"D", "1", " ", "D", "1", " ", "D", "1", " ", "L", " ", "B", "2", "(", "B", "4", ")">>,
                  <<"0", " ", " ", "R", " ", " ", "R", " ", " ", "R">> >>,
    stepLimit |-> 0, tutorial |-> TRUE],
   [tape |-> <<"1", "1", "0", "1", "1">>,
    goal |-> <<"0", "1", "0", "1", "1">>,
    source |-> << <<"L", " ", "D", "1", "(", "D", "_", ")", " ", "B", "2">>,
                  <<".", " ", "R", " ", " ", " ", " ", " ", " ", "0">> >>,
    stepLimit |-> 0, tutorial |-> TRUE],
   [tape |-> <<"0", "_", "0", "0", "1">>,
    goal |-> <<"0", "1", "0", "0", "1">>,
    source |-> << <<"L", " ", "L", " ", "D", "0", "(", "D", "_", ")", " ", "R", " ", " ", "D", "1", " ", "B", "3">>,
                  <<".", " ", ".", " ", "1", " ", " ", " ", " ", " ", " ", "U", "1">> >>,
    stepLimit |-> 0, tutorial |-> FALSE],
   [tape |-> <<"0", "1", "1", "1", "1">>,
    goal |-> <<"1", "0", "0", "0", "0">>,
    source |-> << <<"L", " ", "L", " ", "D", "0", "(", "D", "1", ")", " ", "0", "(", "1", ")", " ", "R", " ", " ", " ", "D", "_", " ", "B", "4">>,
                  <<".", " ", ".", " ", "*", "0", " ", " ", " ", " ", " ", ".", " ", " ", " ", " ", "*", "U", "0">> >>,
    stepLimit |-> 0, tutorial |-> FALSE],
   [tape |-> <<"1", "1", "0", "1", "0">>,
    goal |-> <<"0", "1", "0", "1", "1">>,
    source |-> << <<"L", " ", "D", "_", " ", "B", "2", " ", ".", " ", "R", "(", "L", ")", " ", " ", " ", "1">>,
                  <<".", " ", "R", " ", " ", "0", " ", " ", "R", " ", "U", "0", "(", "U", "_", ")", " ", "B", "2">> >>,
    stepLimit |-> 0, tutorial |-> FALSE],
   [tape |-> <<"0", "1", "_", "0", "1">>,
    goal |-> <<"0", "0", "0", "1", "1">>,
    source |-> << <<"L", " ", "D", "_", "(", "D", "1", ")", " ", "B", "2", " ", ".", " ", "L", " ", " ", " ", " ", " ", " ", "1", " ", " ", "L", " ", "0">>,
                  <<".", " ", ".", " ", " ", " ", " ", " ", " ", "0", " ", " ", "R", " ", "U", "_", "(", "U", "1", ")", " ", "B", "2", " ", ".", " ", ".">> >>,
    stepLimit |-> 0, tutorial |-> FALSE],
   [tape |-> <<"0", "0", "1", "1", "1">>,
    goal |-> <<"0", "0", "0", "1", "1">>,
    source |-> << <<"D", "_", "(", "D", "1", ")", " ", "1", " ", " ", "L", " ", " ", " ", " ", " ", " ", "D", "_", "(", "D", "1", ")", " ", "1", " ", "L", " ", " ", " ", " ", " ", " ", "D", "_", "(", "D", "0", ")", " ", "1">>,
                  <<"1", " ", " ", " ", " ", " ", " ", "R", " ", " ", "U", "_", "(", "U", "1", ")", " ", "0", " ", " ", " ", " ", " ", " ", "R", " ", "U", "_", "(", "U", "1", ")", " ", "0", " ", " ", " ", " ", " ", " ", "*", "U", "_">> >>,
    stepLimit |-> 0, tutorial |-> FALSE],
   [tape |-> <<"0", "1", "0", "1", "1">>,
    goal |-> <<"0", "1", "0", "1", "1">>,
    source |-> << <<".", " ", " ", ".", " ", " ", "D", "_", " ", "D", "_", " ", "L", " ", "R", " ", "L", " ", "R">>,
                  <<"U", "_", " ", "U", "_", " ", ".", " ", " ", ".", " ", " ", ".", " ", ".", " ", "1", " ", "0">> >>,
    stepLimit |-> 0, tutorial |-> TRUE],
   [tape |-> <<"0", "_", "0", "0", "_">>,
    goal |-> <<"0", "1", "0", "0", "1">>,
    source |-> << <<"L", " ", "L", " ", "D", "_", "(", "D", "0", ")", " ", "1", " ", " ", "R", " ", "D", "1", "(", "D", "_", ")", " ", "B", "4">>,
                  <<".", " ", "R", " ", "U", "0", "(", "U", "_", ")", " ", "B", "2">> >>,
    stepLimit |-> 0, tutorial |-> FALSE],
   [tape |-> <<"0", "0", "0", "0", "1">>,
    goal |-> <<"1", "0", "0", "0", "0">>,
    source |-> << <<"D", "0", "(", "D", "1", ")", " ", "R", " ", ".", " ", "D", "0", "(", "D", "_", ")", " ", "B", "4">>,
                  <<"0", " ", " ", " ", " ", " ", " ", "L", " ", "1", " ", "L", " ", " ", " ", " ", " ", " ", "U", "_", "(", "U", "0", ")">> >>,
    stepLimit |-> 80, tutorial |-> FALSE]
  >>

RECURSIVE SplitFrom(_, _, _)
\* str.split(/ +/) from character i on, acc the token read so far: a run of
\* spaces ends a token, and the end of the string ends the last one
SplitFrom(str, i, acc) ==
  IF i > Len(str) THEN <<acc>>
  ELSE IF str[i] = " "
    THEN IF i > 1 /\ str[i - 1] = " "
           THEN SplitFrom(str, i + 1, acc)
           ELSE <<acc>> \o SplitFrom(str, i + 1, <<>>)
  ELSE SplitFrom(str, i + 1, Append(acc, str[i]))

Split(str) == SplitFrom(str, 1, <<>>)

SetMax(S) == CHOOSE x \in S : \A y \in S : y <= x
SetMin(S) == CHOOSE x \in S : \A y \in S : x <= y

\* an assembleOp whose first pass keeps the op as written before the
\* parentheses, which is the wrong one
assembleOp_keepsWrong(op, pass) ==
  LET opens == {i \in DOMAIN op : op[i] = "("}
      closes == {j \in DOMAIN op : op[j] = ")"}
  IN IF op = <<".">> THEN <<>>
     ELSE IF \E i \in opens, j \in closes : i < j
       THEN LET close == SetMax(closes)
                first == SetMin({i \in opens : i < close})
                kept == SubSeq(op, 1, first - 1) \o SubSeq(op, close + 1, Len(op))
            IN IF pass = 0 THEN kept ELSE <<"*">> \o kept
     ELSE IF pass = 0 /\ op # <<>> /\ op[1] = "*" THEN Tail(op)
     ELSE op

\* the body of the inner loop of turing.assemble_ for one op: the regular
\* expression /\(.*\)/ matches from the first ( that has a ) behind it to the
\* last ), and /.*\((.*)\).*/ captures from behind the last such ( to the last )
assembleOp(op, pass) ==
  LET opens == {i \in DOMAIN op : op[i] = "("}
      closes == {j \in DOMAIN op : op[j] = ")"}
  IN IF op = <<".">> THEN <<>>
     ELSE IF \E i \in opens, j \in closes : i < j
       THEN LET close == SetMax(closes)
                first == SetMin({i \in opens : i < close})
                last == SetMax({i \in opens : i < close})
            IN IF pass = 0
                 THEN SubSeq(op, last + 1, close - 1)
                 ELSE <<"*">> \o SubSeq(op, 1, first - 1) \o SubSeq(op, close + 1, Len(op))
     ELSE IF pass = 0 /\ op # <<>> /\ op[1] = "*" THEN Tail(op)
     ELSE op

\* one pass of turing.assemble_ over the strings of the tracks
assemblePass(sources, pass) ==
  [i \in DOMAIN sources |->
     LET trackOps == Split(sources[i])
     IN [j \in DOMAIN trackOps |-> assembleOp(trackOps[j], pass)]]

\* turing.assemble_
assemble_(sources) ==
  [correct |-> assemblePass(sources, 0), incorrect |-> assemblePass(sources, 1)]

(***************************************************************************)
(* turing.Simulator                                                         *)
(***************************************************************************)
\* turing.Simulator.prototype.isRunning
isRunning(w) == w.sim.stepTimerId_ # NoTimer

\* turing.Simulator.prototype.hasStepLimit
hasStepLimit(w) == w.sim.stepLimit_ # 0

\* turing.Simulator.prototype.setStepLimit
setStepLimit(w, limit) ==
  [w EXCEPT !.sim.stepLimit_ = limit]

\* a run that does not look at isRunning()
run_unguarded(w, speed, kind) ==
  LET w1 == setNextPos(w, 0, 0)
      w2 == [w1 EXCEPT !.sim.speeds_ = speed,
                       !.sim.stepCount_ = 0,
                       !.sim.runCount_ = <<>>]
      w3 == delay(w2, StepCallback, 0)
      n  == w.obs.runs + 1
  IN [w3 EXCEPT
        !.sim.stepTimerId_ = w2.anim.eventId_,
        !.sim.program_ = TRUE,
        !.sim.tape_ = TRUE,
        !.sim.doneCallback_ = IF kind = "none" THEN NoDoneCallback
                              ELSE [run |-> n, kind |-> kind],
        !.obs.runs = n,
        !.obs.withDone = IF kind = "none" THEN @ ELSE @ \cup {n},
        !.obs.doneCalls = [r \in 1..n |-> IF r = n THEN 0 ELSE @[r]]]

\* turing.Simulator.prototype.run: kind is what opt_doneCallback does
run(w, speed, kind) ==
  IF isRunning(w) THEN w
  ELSE LET w1 == setNextPos(w, 0, 0)
           w2 == [w1 EXCEPT !.sim.speeds_ = speed,
                            !.sim.stepCount_ = 0,
                            !.sim.runCount_ = <<>>]
           w3 == delay(w2, StepCallback, 0)
           n  == w.obs.runs + 1
       IN [w3 EXCEPT
             !.sim.stepTimerId_ = w2.anim.eventId_,
             !.sim.program_ = TRUE,
             !.sim.tape_ = TRUE,
             !.sim.doneCallback_ = IF kind = "none" THEN NoDoneCallback
                                   ELSE [run |-> n, kind |-> kind],
             !.obs.runs = n,
             !.obs.withDone = IF kind = "none" THEN @ ELSE @ \cup {n},
             !.obs.doneCalls = [r \in 1..n |-> IF r = n THEN 0 ELSE @[r]]]

\* the call this.doneCallback_() in stop
InvokeDone(w, cb) ==
  LET called == [w EXCEPT !.obs.doneCalls[cb.run] = @ + 1]
  IN IF cb.kind = "rerun" THEN run(called, LUDICROUS, "note")
     ELSE IF cb.kind = "finish" THEN delay(called, DimPlayCallback, 700)
     ELSE called

\* a stop that calls doneCallback_ and leaves it set
stop_keepsCallback(w) ==
  LET w1 == IF w.sim.stepTimerId_ # NoTimer THEN cancel(w, w.sim.stepTimerId_) ELSE w
      w2 == [w1 EXCEPT !.sim.stepTimerId_ = NoTimer,
                       !.sim.program_ = FALSE,
                       !.sim.tape_ = FALSE]
  IN IF w2.sim.doneCallback_ # NoDoneCallback
       THEN InvokeDone(w2, w2.sim.doneCallback_)
       ELSE w2

\* turing.Simulator.prototype.stop
stop(w) ==
  LET w1 == IF w.sim.stepTimerId_ # NoTimer THEN cancel(w, w.sim.stepTimerId_) ELSE w
      w2 == [w1 EXCEPT !.sim.stepTimerId_ = NoTimer,
                       !.sim.program_ = FALSE,
                       !.sim.tape_ = FALSE]
  IN IF w2.sim.doneCallback_ # NoDoneCallback
       THEN [InvokeDone(w2, w2.sim.doneCallback_) EXCEPT !.sim.doneCallback_ = NoDoneCallback]
       ELSE w2

\* a pause that leaves the step event in the queue
pause_keepsEvent(w) ==
  [w EXCEPT !.sim.stepTimerId_ = NoTimer, !.sim.paused_ = TRUE]

\* turing.Simulator.prototype.pause
pause(w) ==
  LET w1 == IF w.sim.stepTimerId_ # NoTimer THEN cancel(w, w.sim.stepTimerId_) ELSE w
  IN [w1 EXCEPT !.sim.stepTimerId_ = NoTimer, !.sim.paused_ = TRUE]

\* turing.Simulator.prototype.resumeIfPaused
resumeIfPaused(w) ==
  LET w1 == IF w.sim.paused_
              THEN [delay(w, StepCallback, 0) EXCEPT !.sim.stepTimerId_ = w.anim.eventId_]
              ELSE w
  IN [w1 EXCEPT !.sim.paused_ = FALSE]

\* a speedUpBoringLoops_ that compares the count with this step counted in
speedUpBoringLoops_countsThisStep(w) ==
  LET pc == <<w.program.curTrack_, w.program.curTrackPos_>>
      rc == w.sim.runCount_
      count == IF pc \in DOMAIN rc THEN rc[pc] ELSE 0
      w1 == [w EXCEPT !.sim.runCount_ =
                        [k \in (DOMAIN rc) \cup {pc} |-> IF k = pc THEN count + 1 ELSE rc[k]]]
  IN IF count + 1 > VERY_BORING_REPEAT_COUNT THEN [w1 EXCEPT !.sim.speeds_ = LUDICROUS]
     ELSE IF count + 1 > SOMEWHAT_BORING_REPEAT_COUNT THEN [w1 EXCEPT !.sim.speeds_ = FAST]
     ELSE w1

\* a speedUpBoringLoops_ that tests for a somewhat boring loop first
speedUpBoringLoops_somewhatFirst(w) ==
  LET pc == <<w.program.curTrack_, w.program.curTrackPos_>>
      rc == w.sim.runCount_
      count == IF pc \in DOMAIN rc THEN rc[pc] ELSE 0
      w1 == [w EXCEPT !.sim.runCount_ =
                        [k \in (DOMAIN rc) \cup {pc} |-> IF k = pc THEN count + 1 ELSE rc[k]]]
  IN IF count > SOMEWHAT_BORING_REPEAT_COUNT THEN [w1 EXCEPT !.sim.speeds_ = FAST]
     ELSE IF count > VERY_BORING_REPEAT_COUNT THEN [w1 EXCEPT !.sim.speeds_ = LUDICROUS]
     ELSE w1

\* a speedUpBoringLoops_ that counts a visit only while the speed is below FAST
speedUpBoringLoops_belowFast(w) ==
  LET pc == <<w.program.curTrack_, w.program.curTrackPos_>>
      rc == w.sim.runCount_
      count == IF pc \in DOMAIN rc THEN rc[pc] ELSE 0
      w1 == IF w.sim.speeds_ >= FAST THEN w
            ELSE [w EXCEPT !.sim.runCount_ =
                    [k \in (DOMAIN rc) \cup {pc} |-> IF k = pc THEN count + 1 ELSE rc[k]]]
  IN IF count > VERY_BORING_REPEAT_COUNT THEN [w1 EXCEPT !.sim.speeds_ = LUDICROUS]
     ELSE IF count > SOMEWHAT_BORING_REPEAT_COUNT THEN [w1 EXCEPT !.sim.speeds_ = FAST]
     ELSE w1

\* turing.Simulator.prototype.speedUpBoringLoops_
speedUpBoringLoops_(w) ==
  LET pc == <<w.program.curTrack_, w.program.curTrackPos_>>
      rc == w.sim.runCount_
      count == IF pc \in DOMAIN rc THEN rc[pc] ELSE 0
      w1 == [w EXCEPT !.sim.runCount_ =
                        [k \in (DOMAIN rc) \cup {pc} |-> IF k = pc THEN count + 1 ELSE rc[k]]]
  IN IF count > VERY_BORING_REPEAT_COUNT THEN [w1 EXCEPT !.sim.speeds_ = LUDICROUS]
     ELSE IF count > SOMEWHAT_BORING_REPEAT_COUNT THEN [w1 EXCEPT !.sim.speeds_ = FAST]
     ELSE w1

\* parseInt(c, 10) of one character; NaN stands for the result NaN
NaN == -1

ParseInt(c) ==
  CASE c = "0" -> 0 [] c = "1" -> 1 [] c = "2" -> 2 [] c = "3" -> 3 [] c = "4" -> 4
    [] c = "5" -> 5 [] c = "6" -> 6 [] c = "7" -> 7 [] c = "8" -> 8 [] c = "9" -> 9
    [] OTHER -> NaN

\* a test for /B[2-4]/, the offsets the game programs use
MatchesB_upTo4(op) ==
  \E i \in 1..(Len(op) - 1) :
     op[i] = "B" /\ op[i + 1] \in {"2", "3", "4"}

\* /B[2-9]/.test(op): a B followed by a digit 2..9 anywhere in op
MatchesB(op) ==
  \E i \in 1..(Len(op) - 1) :
     op[i] = "B" /\ op[i + 1] \in {"2", "3", "4", "5", "6", "7", "8", "9"}

\* a step that leaves the marker on the op
StripMarker_keepsMarker(op) == op

\* op with a leading '*' stripped (op.substr(1))
StripMarker(op) == IF Len(op) > 0 /\ op[1] = "*" THEN Tail(op) ELSE op

\* the dispatch on op in step: the tape or next position it sets, and
\* whether the implicit step is still to be taken.  parseInt of a character
\* that is no digit is NaN, for which setNextPos's range test fails.
Dispatch(w, op) ==
  LET track == w.program.curTrack_
      pos == w.program.curTrackPos_
  IN IF op = <<"0">> \/ op = <<"1">> \/ op = <<"_">>
       THEN [w |-> print(w, op[1]), implicitStep |-> TRUE]
     ELSE IF op = <<"L">> THEN [w |-> scanLeft(w), implicitStep |-> TRUE]
     ELSE IF op = <<"R">> THEN [w |-> scanRight(w), implicitStep |-> TRUE]
     ELSE IF MatchesB(op)
       THEN [w |-> IF ParseInt(op[2]) # NaN
                     THEN setNextPos(w, track, pos - ParseInt(op[2]))
                     ELSE [w EXCEPT !.program.nextPosIsEnd_ = TRUE],
             implicitStep |-> FALSE]
     ELSE IF Len(op) > 0 /\ op[1] = "D"
       THEN IF Len(op) = 1 \/ getCurSymbol(w) = op[2]
              THEN [w |-> setNextPos(w, track + 1, pos), implicitStep |-> FALSE]
              ELSE [w |-> w, implicitStep |-> TRUE]
     ELSE IF Len(op) > 0 /\ op[1] = "U"
       THEN IF Len(op) = 1 \/ getCurSymbol(w) = op[2]
              THEN [w |-> setNextPos(w, track - 1, pos), implicitStep |-> FALSE]
              ELSE [w |-> w, implicitStep |-> TRUE]
     ELSE [w |-> w, implicitStep |-> TRUE]

\* a choice of stepTime that takes only U and D for branch ops
StepTime_withoutB(w, op) ==
  LET speeds == SPEED_CONFIG[w.sim.speeds_]
  IN IF op = <<>> THEN speeds.emptyStepTime
     ELSE IF op[1] \in {"U", "D"} THEN speeds.branchTime
     ELSE speeds.stepTime

\* the choice of stepTime at the end of step
StepTime(w, op) ==
  LET speeds == SPEED_CONFIG[w.sim.speeds_]
  IN IF op = <<>> THEN speeds.emptyStepTime
     ELSE IF op[1] \in {"U", "D", "B"} THEN speeds.branchTime
     ELSE speeds.stepTime

\* turing.Simulator.prototype.step
step(w) ==
  IF ~w.sim.tape_ \/ ~w.sim.program_ \/ w.sim.stepTimerId_ = NoTimer THEN w
  ELSE
    LET w1 == goToNextPos([w EXCEPT !.sim.stepTimerId_ = NoTimer])
    IN IF \/ w1.program.nextPosIsEnd_
          \/ (w1.sim.stepLimit_ > 0 /\ w1.sim.stepCount_ > w1.sim.stepLimit_)
         THEN stop(w1)
         ELSE
           LET w2 == IF w1.sim.stepLimit_ > 0 THEN speedUpBoringLoops_(w1) ELSE w1
               w3 == [w2 EXCEPT !.sim.stepCount_ = @ + 1]
               op == StripMarker(getCurOp(w3))
               d  == Dispatch(w3, op)
               w4 == IF d.implicitStep
                       THEN setNextPos(d.w, d.w.program.curTrack_, d.w.program.curTrackPos_ + 1)
                       ELSE d.w
               w5 == delay(w4, StepCallback, StepTime(w4, op))
           IN [w5 EXCEPT !.sim.stepTimerId_ = w4.anim.eventId_]

(***************************************************************************)
(* The frame loop                                                           *)
(***************************************************************************)
\* turing.Tape.prototype.setString on a tape that may hold earlier strings,
\* its seek to the middle of the new string done
setString(w, str) ==
  LET start == w.tape.maxWrittenPosition_ + NUM_SQUARES
      new == start..(start + Len(str) - 1)
  IN [w EXCEPT !.tape.contents_ = [i \in (DOMAIN @) \cup new |->
                                     IF i \in new THEN str[i - start + 1] ELSE @[i]],
               !.tape.pos_ = start + (Len(str) \div 2),
               !.tape.maxWrittenPosition_ = start]

\* turing.setupProgram_(k - 1), outside bonus mode
setupProgram_(w, k) ==
  LET w1 == IF PROGRAMS[k].stepLimit # 0
              THEN setStepLimit(w, PROGRAMS[k].stepLimit) ELSE w
      w2 == change(w1, << <<>>, <<>> >>)
      w3 == delay(w2, [fn |-> "setString", arg |-> k], 800)
      w4 == delay(w3, SetTargetCallback, 2200)
  IN delay(w4, [fn |-> "programReady", arg |-> k], 3200)

\* turing.FAILURES_BEFORE_SLOWING
FAILURES_BEFORE_SLOWING == 2

\* turing.inTutorial_; obs.curProgram is turing.state_.getCurProgram() + 1
inTutorial_(w) == PROGRAMS[w.obs.curProgram].tutorial

\* the speed the closure of the play button's callback runs the program at
playSpeed(w) ==
  IF w.game.numFailures_ >= FAILURES_BEFORE_SLOWING
    THEN IF inTutorial_(w) THEN SLOW ELSE TUTORIAL
    ELSE IF inTutorial_(w) THEN TUTORIAL ELSE NORMAL

\* turing.Controls.prototype.popOutPlayButton(onClick), onClick a function
popOutPlayButton(w) == [w EXCEPT !.game.playCallback_ = TRUE]

\* turing.Controls.prototype.pushInPlayButton
pushInPlayButton(w) == [w EXCEPT !.game.playCallback_ = FALSE]

\* turing.makeInteractive_
makeInteractive_(w, popOutPlayDelay, lightOpsDelay) ==
  delay(w, [fn |-> "popOutPlay", arg |-> lightOpsDelay], popOutPlayDelay)

\* the function turing.makeInteractive_ hands to popOutPlayButton
playCallback(w) ==
  delay(pushInPlayButton(setInteractive(w, FALSE)), RunProgramCallback, 600)

\* turing.Controls.prototype.onMouseDownPlay_; the frames that animate the
\* button only set styles
onMouseDownPlay_(w) ==
  IF ~w.game.playCallback_ \/ w.game.playIsBeingPushedNow_ THEN w
  ELSE [w EXCEPT !.game.playIsBeingPushedNow_ = TRUE]

\* turing.Controls.prototype.onMouseUpPlay_
onMouseUpPlay_(w) ==
  LET w1 == IF w.game.playIsBeingPushedNow_ /\ w.game.playCallback_
              THEN playCallback(w) ELSE w
  IN [w1 EXCEPT !.game.playIsBeingPushedNow_ = FALSE]

\* turing.Controls.prototype.onMouseOutPlay_
onMouseOutPlay_(w) ==
  IF w.game.playIsBeingPushedNow_
    THEN [w EXCEPT !.game.playIsBeingPushedNow_ = FALSE]
    ELSE w

\* frame.call(): what the callback of a queued frame does.  The observer
\* notes each call of a client callback: the event, and the tick it ran in.
Call(w, frame) ==
  LET logged == [w EXCEPT !.obs.fired =
                   Append(@, [eventId |-> frame.eventId, ticks |-> frame.ticks,
                              at |-> w.anim.curTick_])]
      c == frame.call
  IN CASE c.fn = "step" -> step(w)
       [] c.fn = "delay" -> delay(logged, NopCallback, c.arg)
       [] c.fn = "cancel" -> clientCancel(logged, c.arg, TRUE)
       [] c.fn = "again" -> delay(logged, c, 0)
       [] c.fn = "popOutPlay" -> delay(popOutPlayButton(w), LightOpsCallback, c.arg)
       [] c.fn = "lightOps" -> setInteractive(w, TRUE)
       [] c.fn = "runProgram" -> run(w, playSpeed(w), "finish")
       [] c.fn = "dimPlay" -> delay(w, CheckTapeCallback, 1000)
       [] c.fn = "setupProgram" -> setupProgram_(w, w.obs.curProgram)
       [] c.fn = "progress" -> IF w.game.loaded THEN w ELSE delay(scanRight(w), c, 300)
       [] c.fn = "setString" -> setString(w, PROGRAMS[c.arg].tape)
       [] c.fn = "programReady" ->
            makeInteractive_(change(w, assemble_(PROGRAMS[c.arg].source).incorrect), 0, 500)
       [] OTHER -> logged

RECURSIVE Drain(_, _, _)
\* the for loop of turing.anim.loop_ from index i (counted from 1) with
\* numFrames frames called so far: it reads turing.anim.queue_ afresh at each
\* iteration, so it sees what the callbacks pushed and removed
Drain(w, i, numFrames) ==
  IF i > Len(w.anim.queue_) THEN [w |-> w, numFrames |-> numFrames]
  ELSE LET frame == w.anim.queue_[i]
       IN IF frame.ticks <= w.anim.curTick_
            THEN Drain(Call(w, frame), i + 1, numFrames + 1)
            ELSE [w |-> w, numFrames |-> numFrames]

\* the body of the step closure of turing.anim.loop_ when not stopped
loop_(w, slow) ==
  LET w1 == throttleFrameRate_(w, slow)
      w2 == IF w1.anim.queueDirty_
              THEN [w1 EXCEPT !.anim.queue_ = SortQueue(@), !.anim.queueDirty_ = FALSE]
              ELSE w1
      d  == Drain(w2, 1, 0)
      q  == d.w.anim.queue_
  IN [d.w EXCEPT !.anim.queue_ = SubSeq(q, d.numFrames + 1, Len(q)),
                 !.anim.curTick_ = @ + 1]

\* a reset that keeps the tick period the throttle has reached
animReset_keepsPeriod(w) ==
  LET w1 == animStop(w)
      w2 == [w1 EXCEPT !.anim.queue_ = <<>>,
                       !.anim.curTick_ = 0,
                       !.anim.queueDirty_ = FALSE,
                       !.anim.eventId_ = 1,
                       !.obs.fired = <<>>,
                       !.obs.cancelCalled = {},
                       !.obs.cancelledPending = {}]
  IN resetFpsController_(w2)

\* turing.anim.reset (event ids start again at 1, so the observer's notes
\* about event ids start again too)
animReset(w) ==
  LET w1 == animStop(w)
      w2 == [w1 EXCEPT !.anim.queue_ = <<>>,
                       !.anim.curTick_ = 0,
                       !.anim.queueDirty_ = FALSE,
                       !.anim.eventId_ = 1,
                       !.anim.msPerFrame_ = MAX_FPS_MS_,
                       !.obs.fired = <<>>,
                       !.obs.cancelCalled = {},
                       !.obs.cancelledPending = {}]
  IN resetFpsController_(w2)

(***************************************************************************)
(* The state after the scripts have loaded and the objects are constructed  *)
(***************************************************************************)
World ==
  [anim |-> anim, sim |-> sim, program |-> program, tape |-> tape, game |-> game,
   obs |-> obs]

Commit(w) ==
  /\ anim' = w.anim
  /\ sim' = w.sim
  /\ program' = w.program
  /\ tape' = w.tape
  /\ game' = w.game
  /\ obs' = w.obs

AnimInit ==
  [stopped_ |-> TRUE, queue_ |-> <<>>, queueDirty_ |-> FALSE, curTick_ |-> 0,
   eventId_ |-> 1, lastTickStartTime_ |-> 0, tooSlowTicks_ |-> 0,
   msPerFrame_ |-> MAX_FPS_MS_, loops |-> 0]

SimInit ==
  [program_ |-> FALSE, tape_ |-> FALSE, stepTimerId_ |-> NoTimer,
   doneCallback_ |-> NoDoneCallback, stepCount_ |-> 0, stepLimit_ |-> 0,
   runCount_ |-> <<>>, speeds_ |-> NORMAL, paused_ |-> FALSE]

ProgramInit ==
  [curTrack_ |-> 0, curTrackPos_ |-> 0, nextTrack_ |-> 0, nextTrackPos_ |-> 0,
   nextPosIsEnd_ |-> TRUE, numActiveTracks_ |-> 0,
   numTracks_ |-> NUM_PROGRAM_TRACKS_normalMode,
   numOpsPerTrack_ |-> NUM_OPS_PER_TRACK_normalMode,
   tracks_ |-> [i \in 1..NUM_PROGRAM_TRACKS_normalMode |-> <<>>],
   interactive_ |-> FALSE]

TapeInit == [contents_ |-> <<>>, pos_ |-> 0, maxWrittenPosition_ |-> 0]

\* turing.controls_ (playCallback_: whether a callback is set), the sleep
\* timer of the doodle (sleepTimerId_: whether its timeout is pending;
\* listening: whether the mousemove and touchstart listeners are registered)
\* and the start of the game (overlay: whether the overlay still takes the
\* click that starts the game; loading: whether the deferred sprite's onload
\* is awaited; loaded: the variable of that name in turing.startGame_)
GameInit ==
  [playCallback_ |-> FALSE, playIsBeingPushedNow_ |-> FALSE,
   numFailures_ |-> 0,
   sawMouseMove_ |-> FALSE, sleepTimerId_ |-> FALSE, listening |-> FALSE,
   overlay |-> FALSE, loading |-> FALSE, loaded |-> FALSE]

ObsInit ==
  [fired |-> <<>>, cancelCalled |-> {}, cancelledPending |-> {},
   runs |-> 0, withDone |-> {}, doneCalls |-> <<>>, careful |-> FALSE,
   atStop |-> [ids |-> {}, tick |-> 0], lastOp |-> "other", homes |-> 0,
   loop |-> [on |-> FALSE, i |-> 1, numFrames |-> 0], curProgram |-> 0]

Constructed ==
  [anim |-> AnimInit, sim |-> SimInit, program |-> ProgramInit, tape |-> TapeInit,
   game |-> GameInit, obs |-> ObsInit]

(***************************************************************************)
(* The handlers the host can run between two frames.  Did(w, op) notes      *)
(* which method of the simulator the handler called, "other" when none.     *)
(***************************************************************************)
Did(w, op) == [w EXCEPT !.obs.lastOp = op]

\* the programs the environment loads (an op is the sequence of its
\* characters): one that leaves the program at its first step, and one that
\* loops for ever between two tracks
HaltingProgram == << << <<"U">> >> >>
LoopingProgram == << << <<"D">> >>, << <<"U">> >> >>
Catalog == {HaltingProgram, LoopingProgram}

StepLimits == {0, 1}
RunSpeeds == {LUDICROUS}
DoneKinds == {"none", "note", "rerun"}

\* turing.anim.reset(), as turing.init and turing.destroy call it
AnimReset ==
  /\ Commit(Did(animReset(World), "anim.reset"))

\* one requested animation frame arrives: the step closure of loop_
Frame ==
  /\ anim.loops > 0
  /\ IF anim.stopped_
       THEN Commit(Did([World EXCEPT !.anim.loops = @ - 1], "other"))
       ELSE /\ anim.curTick_ < MaxTick
            /\ anim.eventId_ <= MaxEventId
            /\ \E slow \in BOOLEAN : Commit(Did(loop_(World, slow), "other"))

\* simulator.run(program, tape, speed, opt_doneCallback)
Run ==
  /\ obs.runs < MaxRuns
  /\ anim.eventId_ <= MaxEventId
  /\ \E speed \in RunSpeeds, kind \in DoneKinds :
       Commit(Did(run(World, speed, kind), "run"))

\* simulator.stop()
Stop ==
  /\ Commit(Did(stop(World), "stop"))

\* simulator.pause()
Pause ==
  /\ Commit(Did(pause(World), "pause"))

\* simulator.resumeIfPaused()
ResumeIfPaused ==
  /\ anim.eventId_ <= MaxEventId
  /\ Commit(Did(resumeIfPaused(World), "resumeIfPaused"))

(***************************************************************************)
(* Spec: the simulator driven by the scheduler.  It starts where the game   *)
(* is set up: the scheduler reset and started (turing.init), a program of   *)
(* the catalog loaded and a step limit set (turing.setupProgram_).          *)
(***************************************************************************)
Init ==
  \E trackOps \in Catalog, limit \in StepLimits :
     LET w == setStepLimit(change(animStart(animReset(Constructed)), trackOps), limit)
     IN /\ anim = w.anim
        /\ sim = w.sim
        /\ program = w.program
        /\ tape = w.tape
        /\ game = w.game
        /\ obs = w.obs

Next ==
  \/ AnimReset
  \/ Frame
  \/ Run
  \/ Stop
  \/ Pause
  \/ ResumeIfPaused

Spec == Init /\ [][Next]_vars

(***************************************************************************)
(* SpecRun: runs left to themselves.  The environment starts runs and the   *)
(* frames arrive; nothing pauses, resumes or stops a run from outside.      *)
(***************************************************************************)
NextRun ==
  \/ Run
  \/ Frame

SpecRun == Init /\ [][NextRun]_vars

(***************************************************************************)
(* SpecSched: the scheduler and its clients.  A client schedules a callback *)
(* or cancels an event between two frames; the callbacks themselves         *)
(* schedule and cancel from inside the drain.                               *)
(***************************************************************************)
MaxClientEventId == 2   \* a client schedules while eventId_ <= MaxClientEventId

Durations == {0, 50, 100}

ClientCallbacks ==
  {NopCallback, [fn |-> "delay", arg |-> 0]}
    \cup {[fn |-> "cancel", arg |-> id] : id \in 1..MaxClientEventId}

\* a client calls turing.anim.delay(callback, duration)
ClientDelay ==
  /\ anim.eventId_ <= MaxClientEventId
  /\ \E callback \in ClientCallbacks, duration \in Durations :
       Commit(Did(delay(World, callback, duration), "other"))

\* a client calls turing.anim.cancel(eventId) for an event in the queue
ClientCancel ==
  /\ anim.queue_ # <<>>
  /\ \E eventId \in QueueIds(anim.queue_) :
       Commit(Did(clientCancel(World, eventId, FALSE), "other"))

InitSched ==
  LET w == animStart(animReset(Constructed))
  IN /\ anim = w.anim
     /\ sim = w.sim
     /\ program = w.program
     /\ tape = w.tape
     /\ game = w.game
     /\ obs = w.obs

NextSched ==
  \/ ClientDelay
  \/ ClientCancel
  \/ Frame

SpecSched == InitSched /\ [][NextSched]_vars

(***************************************************************************)
(* Properties of the simulator, checked under Spec                          *)
(***************************************************************************)
\* the places in the queue that hold a step event of the simulator
StepEvents(w) ==
  {k \in 1..Len(w.anim.queue_) : w.anim.queue_[k].call = StepCallback}

\* what a caller of the simulator can observe between two handlers
Observable(w) ==
  [isRunning |-> isRunning(w), paused_ |-> w.sim.paused_, queue_ |-> w.anim.queue_,
   program_ |-> w.sim.program_, tape_ |-> w.sim.tape_, doneCalls |-> w.obs.doneCalls]

\* C1: between two handlers the queue holds at most one step event of the
\* simulator, whatever run / pause / resumeIfPaused / stop calls and frames
\* came before.
C1_SingleStepEvent == Cardinality(StepEvents(World)) <= 1

\* C2: a continuation passed to a run() that took effect is never called
\* twice, and while it has not been called it is the one the simulator
\* holds, which the end of the run will call.
C2_DoneExactlyOnce ==
  \A r \in obs.withDone :
     \/ obs.doneCalls[r] = 1
     \/ obs.doneCalls[r] = 0 /\ sim.doneCallback_.run = r

\* C3: with a step limit N > 0 a run executes at most N operations
\* (stepCount_ counts the operations the run has executed).
C3_AtMostLimitOperations ==
  sim.stepLimit_ > 0 => sim.stepCount_ <= sim.stepLimit_

\* C8 as stated: right after a stop(), a second stop() leaves everything a
\* caller can observe as it is.
C8_StopTwiceSameAsOnce ==
  obs.lastOp = "stop" => Observable(stop(World)) = Observable(World)

\* C8: right after a stop() that left the simulator not running (its
\* continuation started no new run), a second stop() leaves everything a
\* caller can observe as it is.
C8_StopTwiceSameAsOnce_Idle ==
  (obs.lastOp = "stop" /\ ~isRunning(World))
     => Observable(stop(World)) = Observable(World)

\* a stop() has just ended a paused run and called its continuation, and the
\* simulator is idle
C8_Witness ==
  /\ obs.lastOp = "stop"
  /\ ~isRunning(World)
  /\ \E r \in obs.withDone : obs.doneCalls[r] = 1
  /\ sim.paused_

\* C9: isRunning() is true exactly when a step event of the simulator is in
\* the queue.
C9_RunningIffStepPending ==
  isRunning(World) <=> StepEvents(World) # {}

\* C10: a pause(), resumeIfPaused() or stop() called while no run is active
\* leaves the simulator not running and no step event in the queue.
C10_InapplicableCallIsNoOp ==
  [][(obs'.lastOp \in {"pause", "resumeIfPaused", "stop"} /\ ~sim.program_)
       => (~isRunning(World') /\ StepEvents(World') = {})]_vars

(***************************************************************************)
(* Properties of the scheduler, checked under SpecSched                     *)
(***************************************************************************)
\* C4: an event that was pending when cancel was called with its id is never
\* called afterwards.
C4_CancelledNeverFires ==
  \A c \in obs.cancelledPending : c.eventId \notin FiredIds(World)

\* a callback has cancelled a pending event during the drain of a tick at
\* which that event was due, and that tick is over
C4_Witness ==
  \E c \in obs.cancelledPending :
     /\ c.inside
     /\ c.ticks <= c.at
     /\ anim.curTick_ > c.at

\* C5: between two frames every event that was scheduled and that no cancel
\* was called for is either still in the queue or has been called, no event
\* has been called twice, and none before its due tick.
C5_EveryEventFiresOnce ==
  /\ \A id \in 1..(anim.eventId_ - 1) :
        \/ id \in obs.cancelCalled
        \/ id \in QueueIds(anim.queue_)
        \/ id \in FiredIds(World)
  /\ \A j, k \in 1..Len(obs.fired) :
        obs.fired[j].eventId = obs.fired[k].eventId => j = k
  /\ \A k \in 1..Len(obs.fired) : obs.fired[k].ticks <= obs.fired[k].at

\* C6: a cancel called with the id of no pending event changes nothing.
\* Between two frames it leaves the queue as it is; and the next frame ends
\* with the same queue and the same calls made as it does when the callbacks
\* leave out every such cancel.
C6_StaleCancelChangesNothing ==
  /\ \A id \in (1..anim.eventId_) \ QueueIds(anim.queue_) :
        cancel(World, id) = World
  /\ LET real == loop_(World, FALSE)
         careful == loop_([World EXCEPT !.obs.careful = TRUE], FALSE)
     IN /\ real.anim.queue_ = careful.anim.queue_
        /\ real.obs.fired = careful.obs.fired

\* C7: the callbacks are called in ascending order of (due tick, event id),
\* event ids being handed out in scheduling order.
C7_FiresInDueThenSchedulingOrder ==
  \A j, k \in 1..Len(obs.fired) :
     j < k =>
       \/ obs.fired[j].ticks < obs.fired[k].ticks
       \/ /\ obs.fired[j].ticks = obs.fired[k].ticks
          /\ obs.fired[j].eventId < obs.fired[k].eventId

\* A was scheduled for 100 ms and B right after it for 50 ms, at the first
\* tick; B has been called, and A after it
C7_Witness ==
  \E j, k \in 1..Len(obs.fired) :
     /\ j < k
     /\ obs.fired[k].eventId = 1
     /\ obs.fired[k].ticks = getNumTicks_(World, 100)
     /\ obs.fired[j].eventId = 2
     /\ obs.fired[j].ticks = getNumTicks_(World, 50)

(***************************************************************************)
(* Properties of step(), checked under Spec                                 *)
(***************************************************************************)
\* the frame the next drain calls first: due, and before every other frame
\* of the queue in the order of the sort
CalledFirst(w, k) ==
  /\ w.anim.queue_[k].ticks <= w.anim.curTick_
  /\ \A j \in 1..Len(w.anim.queue_) :
        j = k \/ FrameBefore(w.anim.queue_[k], w.anim.queue_[j])

\* C11: when the step event the next drain calls first is not the event the
\* simulator has stored in stepTimerId_, its call of step() changes neither
\* the program position, the tape, the step count nor the queue.
C11_StrayStepIsNoOp ==
  \A k \in StepEvents(World) :
     (CalledFirst(World, k) /\ anim.queue_[k].eventId # sim.stepTimerId_)
        => LET w == step(World)
           IN /\ w.program = program
              /\ w.tape = tape
              /\ w.sim.stepCount_ = sim.stepCount_
              /\ w.anim.queue_ = anim.queue_

(***************************************************************************)
(* SpecLimited: runs under a step limit, left to themselves, with the frame *)
(* loop running for as long as events are queued; the frames of an empty    *)
(* queue, which only advance the clock, are left out.  Each frame advances  *)
(* curTick_, so a run that is never rescheduled leaves the queue empty, and *)
(* then nothing more happens until the next run().                          *)
(***************************************************************************)
PositiveStepLimits == {1, 2}

\* one requested animation frame arrives while events are queued
BusyFrame ==
  /\ anim.loops > 0
  /\ ~anim.stopped_
  /\ anim.queue_ # <<>>
  /\ \E slow \in BOOLEAN : Commit(Did(loop_(World, slow), "other"))

InitLimited ==
  \E trackOps \in Catalog, limit \in PositiveStepLimits :
     LET w == setStepLimit(change(animStart(animReset(Constructed)), trackOps), limit)
     IN /\ anim = w.anim
        /\ sim = w.sim
        /\ program = w.program
        /\ tape = w.tape
        /\ game = w.game
        /\ obs = w.obs

NextLimited ==
  \/ Run
  \/ BusyFrame

SpecLimited == InitLimited /\ [][NextLimited]_vars

\* every run() that was passed a continuation has halted and called it
AllRunsDone ==
  /\ ~isRunning(World)
  /\ \A r \in obs.withDone : obs.doneCalls[r] >= 1

\* C12: with a step limit set, the scheduler started and no pause() or
\* stop() from outside, every run() halts and calls its continuation: once
\* the queue is empty, so that no step is to come, every run() that was
\* passed a continuation has halted and called it.
C12_RunHaltsAndCallsDone == anim.queue_ = <<>> => AllRunsDone

\* C13 (under Spec): a run() called while isRunning() is true changes
\* nothing: the program's positions and End flag, the step count, the run
\* counts, the speeds, the stored continuation and the queue stay as they
\* are, whatever the speed and the continuation passed.
C13_RunWhileRunningIsNoOp ==
  isRunning(World) =>
    \A speed \in DOMAIN SPEED_CONFIG, kind \in DoneKinds :
       LET w == run(World, speed, kind)
       IN /\ w.program = program
          /\ w.sim = sim
          /\ w.anim = anim
          /\ w.tape = tape

\* run() has just been called during a run that had already executed a
\* step, and the step count was not reset
C13_Witness ==
  /\ obs.lastOp = "run"
  /\ isRunning(World)
  /\ sim.stepCount_ > 0

(***************************************************************************)
(* More properties of the scheduler, checked under SpecSched                *)
(***************************************************************************)
\* C14: an event scheduled with duration 0 is not called by the delay call
\* that schedules it, and a frame calls no event that was scheduled by a
\* callback of that same frame: every event the next frame calls is in the
\* queue before the frame starts.
C14_ZeroDelayWaitsForNextTick ==
  /\ \A callback \in ClientCallbacks :
        delay(World, callback, 0).obs.fired = obs.fired
  /\ FiredIds(loop_(World, FALSE)) \ FiredIds(World) \subseteq QueueIds(anim.queue_)

(***************************************************************************)
(* SpecStartStop: the scheduler stopped and started again while clients     *)
(* have events pending.  The callbacks here do nothing to the scheduler.    *)
(* The observer notes, at each stop(), the ids of the events in the queue   *)
(* and the tick.                                                            *)
(***************************************************************************)
\* a client calls turing.anim.delay(callback, duration) with a callback that
\* leaves the scheduler alone
ClientDelayPlain ==
  /\ anim.eventId_ <= MaxClientEventId
  /\ \E duration \in Durations :
       Commit(Did(delay(World, NopCallback, duration), "other"))

\* turing.anim.stop(), as turing.sleepIfInactive_ calls it
AnimStop ==
  /\ ~anim.stopped_
  /\ Commit(Did([animStop(World) EXCEPT
                   !.obs.atStop = [ids |-> QueueIds(anim.queue_),
                                   tick |-> anim.curTick_]], "other"))

\* turing.anim.start(), as turing.mouseMoveListener_ calls it
AnimStart ==
  /\ anim.stopped_
  /\ anim.loops < MaxLoops
  /\ Commit(Did(animStart(World), "other"))

NextStartStop ==
  \/ ClientDelayPlain
  \/ AnimStop
  \/ AnimStart
  \/ Frame

SpecStartStop == InitSched /\ [][NextStartStop]_vars

\* C15: stop() removes no event from the queue, and while the scheduler is
\* stopped the tick counter stays where it was and the events that were
\* pending at the stop stay queued; afterwards each of them is either still
\* queued and not overdue, or was called at its due tick.
C15_StopKeepsEvents ==
  /\ animStop(World).anim.queue_ = anim.queue_
  /\ animStop(World).anim.curTick_ = anim.curTick_
  /\ anim.stopped_ =>
        /\ anim.curTick_ = obs.atStop.tick
        /\ obs.atStop.ids \subseteq QueueIds(anim.queue_)
  /\ \A id \in obs.atStop.ids :
        \/ \E k \in 1..Len(anim.queue_) :
              anim.queue_[k].eventId = id /\ anim.queue_[k].ticks >= anim.curTick_
        \/ \E k \in 1..Len(obs.fired) :
              obs.fired[k].eventId = id /\ obs.fired[k].at = obs.fired[k].ticks

\* an event that was pending, and not yet due, when the scheduler was
\* stopped has been called after a later start()
C15_Witness ==
  /\ ~anim.stopped_
  /\ \E k \in 1..Len(obs.fired) :
        /\ obs.fired[k].eventId \in obs.atStop.ids
        /\ obs.fired[k].ticks > obs.atStop.tick

(***************************************************************************)
(* SpecThrottle: the frame-rate throttle at work.  The demo program runs    *)
(* for ever without a step limit (turing.startDemo_) while frames arrive    *)
(* late or on time, long enough for the period to reach its slowest value.  *)
(***************************************************************************)
MaxLateTick == 200   \* frames are processed while curTick_ < MaxLateTick

\* one requested animation frame arrives, late (slow) or on time
LateFrame ==
  /\ anim.loops > 0
  /\ IF anim.stopped_
       THEN Commit(Did([World EXCEPT !.anim.loops = @ - 1], "other"))
       ELSE /\ anim.curTick_ < MaxLateTick
            /\ \E slow \in BOOLEAN : Commit(Did(loop_(World, slow), "other"))

InitThrottle ==
  LET w == run(change(animStart(animReset(Constructed)), LoopingProgram), FAST, "none")
  IN /\ anim = w.anim
     /\ sim = w.sim
     /\ program = w.program
     /\ tape = w.tape
     /\ game = w.game
     /\ obs = w.obs

NextThrottle ==
  \/ LateFrame
  \/ AnimReset

SpecThrottle == InitThrottle /\ [][NextThrottle]_vars

(***************************************************************************)
(* C16: after turing.anim.reset() the scheduler is in its initial state     *)
(* (stopped, empty queue, tick 0, period MAX_FPS_MS_, tooSlowTicks_ 0,      *)
(* event ids starting again at 1), and no callback scheduled before the     *)
(* reset is invoked afterwards: the first frame after a restart calls       *)
(* nothing, leaves the queue empty and leaves the simulator, whose step     *)
(* event was pending, where it was.  (loops counts the requested animation  *)
(* frames still to arrive and is no field of the scheduler.)                *)
(***************************************************************************)
C16_ResetRestoresInitialState ==
  LET w == animReset(World)
  IN /\ [w.anim EXCEPT !.loops = AnimInit.loops] = AnimInit
     /\ \A slow \in BOOLEAN :
          LET w1 == loop_(animStart(w), slow)
          IN /\ w1.obs.fired = <<>>
             /\ w1.anim.queue_ = <<>>
             /\ w1.sim = sim
             /\ w1.program = program
             /\ w1.tape = tape

\* a reset has just been made with the simulator's step event pending, after
\* the throttle had tick lengths to measure
C16_Witness ==
  /\ obs.lastOp = "anim.reset"
  /\ anim = [AnimInit EXCEPT !.loops = anim.loops]
  /\ isRunning(World)
  /\ sim.stepCount_ > 8

(***************************************************************************)
(* The throttle's slowdown branch taken in a step: a frame that finds      *)
(* tooSlowTicks_ at 20 and leaves it at 0 counted a 21st slow tick (a tick  *)
(* on time would have halved the counter to 10).                            *)
(***************************************************************************)
ThresholdCrossed ==
  /\ anim.tooSlowTicks_ = 20
  /\ anim'.tooSlowTicks_ = 0
  /\ anim'.curTick_ = anim.curTick_ + 1

\* C17 as stated: every time tooSlowTicks_ exceeds 20 the period msPerFrame_
\* strictly increases, and no step other than a reset decreases the period.
C17_PeriodStrictlyIncreases ==
  [][obs'.lastOp # "anim.reset" =>
       /\ anim'.msPerFrame_ >= anim.msPerFrame_
       /\ ThresholdCrossed => anim'.msPerFrame_ > anim.msPerFrame_]_vars

\* C17 amended: every time tooSlowTicks_ exceeds 20 the period strictly
\* increases unless it already is MIN_FPS_MS_, the slowest period, where it
\* stays; no step other than a reset decreases the period.
C17_PeriodIncreasesUpToSlowest ==
  [][obs'.lastOp # "anim.reset" =>
       /\ anim'.msPerFrame_ >= anim.msPerFrame_
       /\ ThresholdCrossed =>
            IF anim.msPerFrame_ < MIN_FPS_MS_
              THEN anim'.msPerFrame_ > anim.msPerFrame_
              ELSE anim'.msPerFrame_ = MIN_FPS_MS_]_vars

\* the throttle has slowed the frame rate down once and is counting slow
\* ticks towards the next slowdown
C17_Witness ==
  /\ anim.msPerFrame_ = (MAX_FPS_MS_ * 6) \div 5
  /\ anim.tooSlowTicks_ = 20
  /\ ~anim.stopped_

(***************************************************************************)
(* C18: in every reachable state the period msPerFrame_ lies between        *)
(* MAX_FPS_MS_ (1/60 s) and MIN_FPS_MS_ (1/20 s), tooSlowTicks_ is not      *)
(* negative, and a frame whose throttle changes the period leaves           *)
(* tooSlowTicks_ at 0.                                                      *)
(***************************************************************************)
C18_PeriodWithinRange ==
  /\ MAX_FPS_MS_ <= anim.msPerFrame_
  /\ anim.msPerFrame_ <= MIN_FPS_MS_
  /\ anim.tooSlowTicks_ >= 0
  /\ \A slow \in BOOLEAN :
       LET w == throttleFrameRate_(World, slow)
       IN /\ w.anim.msPerFrame_ <= MIN_FPS_MS_
          /\ w.anim.msPerFrame_ # anim.msPerFrame_ => w.anim.tooSlowTicks_ = 0

\* the throttle has just slowed the frame rate down to the slowest period
C18_Witness ==
  /\ anim.msPerFrame_ = MIN_FPS_MS_
  /\ anim.tooSlowTicks_ = 0
  /\ anim.curTick_ = 30 + 7 * 21 + 1
  /\ ~anim.stopped_

(***************************************************************************)
(* SpecProgram: the Program and its callers.  The game loads programs,      *)
(* switches between normal and bonus mode, and sets and takes positions,    *)
(* by itself and through the steps of a run.                                *)
(***************************************************************************)
\* the arguments of change: the programs of the catalog and an array of no
\* tracks, the smallest argument change takes
NoTracks == <<>>
ProgramInputs == Catalog \cup {NoTracks}

\* arguments of setNextPos: NaN, the tracks a program of the catalog has or
\* has not, and the positions around the end of a track in each mode
TrackInputs == {NaN, 0, 1}
PosInputs == {NaN, NUM_OPS_PER_TRACK_normalMode - 1, NUM_OPS_PER_TRACK_normalMode,
              NUM_OPS_PER_TRACK_bonusMode}

Change ==
  /\ \E trackOps \in ProgramInputs : Commit(Did(change(World, trackOps), "change"))

SetNextPos ==
  /\ \E track \in TrackInputs, pos \in PosInputs :
       Commit(Did(setNextPos(World, track, pos), "setNextPos"))

GoToNextPos ==
  /\ Commit(Did(goToNextPos(World), "goToNextPos"))

SwitchProgramsToBonusMode ==
  /\ Commit(Did(switchProgramsToBonusMode(World), "other"))

SwitchProgramsToNormalMode ==
  /\ Commit(Did(switchProgramsToNormalMode(World), "other"))

NextProgram ==
  \/ Change
  \/ SetNextPos
  \/ GoToNextPos
  \/ SwitchProgramsToBonusMode
  \/ SwitchProgramsToNormalMode
  \/ Run
  \/ Frame

SpecProgram == InitSched /\ [][NextProgram]_vars

(***************************************************************************)
(* C19: setNextPos(track, pos) with 0 <= track < numActiveTracks_ and       *)
(* 0 <= pos < numOpsPerTrack_ sets the next position to (track, pos) and    *)
(* nextPosIsEnd_ to false; with any other arguments it sets nextPosIsEnd_   *)
(* to true and leaves the next position alone.  The current position, and   *)
(* everything else, is as it was in both cases.                             *)
(***************************************************************************)
C19_SetNextPosChecksRange ==
  \A track \in TrackInputs, pos \in PosInputs :
     LET w == setNextPos(World, track, pos)
         inRange == /\ 0 <= track
                    /\ track < program.numActiveTracks_
                    /\ 0 <= pos
                    /\ pos < program.numOpsPerTrack_
     IN /\ w.program.nextPosIsEnd_ = ~inRange
        /\ w.program.nextTrack_ = IF inRange THEN track ELSE program.nextTrack_
        /\ w.program.nextTrackPos_ = IF inRange THEN pos ELSE program.nextTrackPos_
        /\ w.program.curTrack_ = program.curTrack_
        /\ w.program.curTrackPos_ = program.curTrackPos_
        /\ w = [World EXCEPT !.program.nextPosIsEnd_ = w.program.nextPosIsEnd_,
                             !.program.nextTrack_ = w.program.nextTrack_,
                             !.program.nextTrackPos_ = w.program.nextTrackPos_]

\* a setNextPos call has just refused its arguments and left the next
\* position an earlier call had set
C19_Witness ==
  /\ obs.lastOp = "setNextPos"
  /\ program.nextPosIsEnd_
  /\ program.nextTrack_ = 1
  /\ program.nextTrackPos_ = NUM_OPS_PER_TRACK_normalMode
  /\ program.numOpsPerTrack_ = NUM_OPS_PER_TRACK_bonusMode

(***************************************************************************)
(* C20: after any change, setNextPos or goToNextPos call or simulator step, *)
(* the next position is within the active program whenever nextPosIsEnd_    *)
(* is false, and so is the current position, the one getCurOp reads.        *)
(***************************************************************************)
InProgram(track, pos) ==
  /\ 0 <= track
  /\ track < program.numActiveTracks_
  /\ 0 <= pos
  /\ pos < program.numOpsPerTrack_

PositionsInProgram ==
  /\ ~program.nextPosIsEnd_ => InProgram(program.nextTrack_, program.nextTrackPos_)
  /\ InProgram(program.curTrack_, program.curTrackPos_)

C20_PositionsStayInProgram == [][PositionsInProgram']_vars

(***************************************************************************)
(* SpecInterp: the interpreter at work.  A program is loaded, the tape is   *)
(* blank or holds the string of a game program, a run is started and the    *)
(* frames arrive on time until the run ends or MaxRunTick is reached.       *)
(***************************************************************************)
MaxRunTick == 1000   \* frames are processed while curTick_ < MaxRunTick

\* turing.PROGRAMS[0].ops.correct: 'D0 D_ 0 L B4' over '. 1 R U_ B2'
DemoProgram ==
  << << <<"D", "0">>, <<"D", "_">>, <<"0">>, <<"L">>, <<"B", "4">> >>,
     << <<>>, <<"1">>, <<"R">>, <<"U", "_">>, <<"B", "2">> >> >>

\* turing.PROGRAMS[4].ops.incorrect: 'L D1(D_) B2' over '. R 0', tape '11011'
FirstBitProgram ==
  << << <<"L">>, <<"*", "D", "1">>, <<"B", "2">> >>,
     << <<>>, <<"R">>, <<"0">> >> >>
FirstBitTape == <<"1", "1", "0", "1", "1">>

\* a program that goes round (0,0) and (1,0), having been at (0,0) twice
\* before it first comes to (1,0)
UnevenLoopProgram ==
  << << <<"D", "1">>, <<"1">>, <<"B", "2">> >>, << <<"U">> >> >>

\* a program of prints and moves that ends on a branch back past the start
\* of its track
PrintProgram ==
  << << <<"1">>, <<"R">>, <<"0">>, <<"_">>, <<"L">>, <<"*", "0">>, <<"B", "9">> >> >>

\* a program of op strings that assemble_ and the buttons never make
MalformedProgram ==
  << << <<"X">>, <<"0", "0">>, <<"*", "*", "0">>, <<"B", "1">>, <<"D", "5">>,
        <<"X", "B", "2">>, <<"1">> >> >>

\* turing.Tape.prototype.setString(str) on a new tape, its seek to the middle
\* of the string done
setStringDone(w, str) ==
  LET start == w.tape.maxWrittenPosition_ + NUM_SQUARES
  IN [w EXCEPT !.tape.contents_ = [i \in start..(start + Len(str) - 1) |-> str[i - start + 1]],
               !.tape.pos_ = start + (Len(str) \div 2),
               !.tape.maxWrittenPosition_ = start]

\* what is run: the demo (turing.startDemo_), a game program at the speed
\* and step limit of the game (turing.makeInteractive_), and programs that
\* loop, halt, print and hold malformed ops
InterpInputs ==
  {[ops |-> DemoProgram, str |-> <<>>, set |-> FALSE, limit |-> 0, speed |-> FAST],
   [ops |-> DemoProgram, str |-> <<>>, set |-> FALSE, limit |-> GAME_PROGRAM_STEP_LIMIT, speed |-> NORMAL],
   [ops |-> FirstBitProgram, str |-> FirstBitTape, set |-> TRUE, limit |-> GAME_PROGRAM_STEP_LIMIT, speed |-> TUTORIAL],
   [ops |-> LoopingProgram, str |-> <<>>, set |-> FALSE, limit |-> GAME_PROGRAM_STEP_LIMIT, speed |-> NORMAL],
   [ops |-> LoopingProgram, str |-> <<>>, set |-> FALSE, limit |-> GAME_PROGRAM_STEP_LIMIT, speed |-> LUDICROUS],
   [ops |-> UnevenLoopProgram, str |-> <<>>, set |-> FALSE, limit |-> GAME_PROGRAM_STEP_LIMIT, speed |-> NORMAL],
   [ops |-> HaltingProgram, str |-> <<>>, set |-> FALSE, limit |-> 0, speed |-> SLOW],
   [ops |-> PrintProgram, str |-> <<>>, set |-> TRUE, limit |-> GAME_PROGRAM_STEP_LIMIT, speed |-> NORMAL],
   [ops |-> MalformedProgram, str |-> <<>>, set |-> FALSE, limit |-> 0, speed |-> NORMAL]}

\* control is back at (0,0) with the head on cell 0: the op just executed is
\* the B4 at (0,4)
AtHome(w) ==
  /\ w.sim.stepCount_ > 0
  /\ w.program.curTrack_ = 0
  /\ w.program.curTrackPos_ = 4
  /\ w.program.nextTrack_ = 0
  /\ w.program.nextTrackPos_ = 0
  /\ ~w.program.nextPosIsEnd_
  /\ w.tape.pos_ = 0

\* one requested animation frame arrives on time; the observer counts the
\* times control comes home
RunFrame ==
  /\ anim.loops > 0
  /\ ~anim.stopped_
  /\ anim.curTick_ < MaxRunTick
  /\ LET w == loop_(World, FALSE)
     IN Commit(Did([w EXCEPT !.obs.homes = IF AtHome(w) /\ ~AtHome(World) THEN @ + 1 ELSE @],
                   "other"))

InitInterp ==
  \E in \in InterpInputs :
     LET w0 == animStart(animReset(Constructed))
         w1 == IF in.set THEN setStringDone(w0, in.str) ELSE w0
         w == run(setStepLimit(change(w1, in.ops), in.limit), in.speed, "none")
     IN /\ anim = w.anim
        /\ sim = w.sim
        /\ program = w.program
        /\ tape = w.tape
        /\ game = w.game
        /\ obs = w.obs

NextInterp ==
  \/ RunFrame

SpecInterp == InitInterp /\ [][NextInterp]_vars

(***************************************************************************)
(* Properties of the interpreter, checked under SpecInterp.  They compare   *)
(* step(World) with the state it is called in, where the call executes an   *)
(* op: the simulator runs, the next position is no end and the step limit   *)
(* is not passed.  The op executed is the one at the next position.         *)
(***************************************************************************)
Executing(w) ==
  /\ isRunning(w)
  /\ w.sim.program_
  /\ w.sim.tape_
  /\ ~w.program.nextPosIsEnd_
  /\ ~(w.sim.stepLimit_ > 0 /\ w.sim.stepCount_ > w.sim.stepLimit_)

\* the string in the slot the step executes, '' where the track's array ends
\* before it
ExecSlot(w) ==
  LET t == w.program.tracks_
      track == w.program.nextTrack_ + 1
      pos == w.program.nextTrackPos_ + 1
  IN IF track \in DOMAIN t /\ pos \in DOMAIN t[track] THEN t[track][pos] ELSE <<>>

\* the token of that slot: the string without the marker of an editable op
ExecOp(w) ==
  LET slot == ExecSlot(w)
  IN IF slot # <<>> /\ Head(slot) = "*" THEN Tail(slot) ELSE slot

\* the symbol under the head, blank where nothing is written
SymbolUnderHead(w) ==
  LET c == w.tape.contents_
  IN IF w.tape.pos_ \in DOMAIN c /\ c[w.tape.pos_] \in {"0", "1"} THEN c[w.tape.pos_] ELSE "_"

\* the next position of w is (track, pos), or the end where (track, pos) is
\* no position of the program
Lands(w, track, pos) ==
  IF /\ 0 <= track
     /\ track < w.program.numActiveTracks_
     /\ 0 <= pos
     /\ pos < w.program.numOpsPerTrack_
    THEN /\ ~w.program.nextPosIsEnd_
         /\ w.program.nextTrack_ = track
         /\ w.program.nextTrackPos_ = pos
    ELSE w.program.nextPosIsEnd_

IsConditional(op) == Len(op) \in {1, 2} /\ Head(op) \in {"D", "U"}

(***************************************************************************)
(* C21: D<sym> (U<sym>) branches iff the symbol under the head is sym, a    *)
(* bare D (U) always; a taken branch sets the next position to the same     *)
(* index on track + 1 (track - 1), the end where there is no such track;    *)
(* an untaken branch goes on to index + 1 of the same track; an unwritten   *)
(* cell reads as blank.  The tape is left alone.                            *)
(***************************************************************************)
C21_ConditionalBranch ==
  (Executing(World) /\ ExecOp(World) # <<>> /\ IsConditional(ExecOp(World))) =>
     LET op == ExecOp(World)
         w == step(World)
         track == program.nextTrack_
         pos == program.nextTrackPos_
         taken == Len(op) = 1 \/ op[2] = SymbolUnderHead(World)
     IN /\ w.program.curTrack_ = track
        /\ w.program.curTrackPos_ = pos
        /\ w.tape = tape
        /\ IF taken
             THEN Lands(w, IF Head(op) = "D" THEN track + 1 ELSE track - 1, pos)
             ELSE Lands(w, track, pos + 1)

\* the D_ of the demo program has just been taken on a cell never written
C21_Witness ==
  /\ sim.stepCount_ > 0
  /\ isRunning(World)
  /\ getCurOp(World) = <<"D", "_">>
  /\ tape.pos_ \notin DOMAIN tape.contents_
  /\ ~program.nextPosIsEnd_
  /\ program.nextTrack_ = program.curTrack_ + 1
  /\ program.nextTrackPos_ = program.curTrackPos_

\* the number a digit character stands for
Digits == <<"0", "1", "2", "3", "4", "5", "6", "7", "8", "9">>
DigitValue(c) == (CHOOSE i \in 1..Len(Digits) : Digits[i] = c) - 1

IsBranchBack(op) == Len(op) = 2 /\ op[1] = "B" /\ op[2] \in {Digits[i] : i \in 3..10}

(***************************************************************************)
(* C22: B<d>, d in 2..9, executed at (track, index) sets the next position  *)
(* to (track, index - d) with no implicit step and leaves the tape alone;   *)
(* where index - d < 0 the next position is the end, and the step after     *)
(* stops the run without executing an op.                                   *)
(***************************************************************************)
C22_BranchBack ==
  (Executing(World) /\ IsBranchBack(ExecOp(World))) =>
     LET op == ExecOp(World)
         w == step(World)
         track == program.nextTrack_
         pos == program.nextTrackPos_
     IN /\ w.program.curTrack_ = track
        /\ w.program.curTrackPos_ = pos
        /\ w.tape = tape
        /\ Lands(w, track, pos - DigitValue(op[2]))
        /\ pos - DigitValue(op[2]) < 0 =>
             LET w2 == step(w)
             IN /\ w.program.nextPosIsEnd_
                /\ isRunning(w)
                /\ ~isRunning(w2)
                /\ w2.sim.stepCount_ = w.sim.stepCount_
                /\ w2.tape = w.tape
                /\ w2.program = w.program

\* the B9 of the print program has just been executed at index 6
C22_Witness ==
  /\ sim.stepCount_ > 0
  /\ isRunning(World)
  /\ getCurOp(World) = <<"B", "9">>
  /\ program.curTrackPos_ = 6
  /\ program.nextPosIsEnd_

IsPrint(op) == op \in {<<"0">>, <<"1">>, <<"_">>}

(***************************************************************************)
(* C23: the step that executes a print op 0, 1 or _ writes that symbol on   *)
(* the cell under the head and leaves the head and every other cell as      *)
(* they were; the step that executes L (R) moves the head one cell left     *)
(* (right) and leaves the cells as they were; the step that executes a      *)
(* branch op or an empty op leaves head and cells as they were.  The tape   *)
(* has changed when step returns.                                           *)
(***************************************************************************)
C23_TapeEffect ==
  Executing(World) =>
     LET op == ExecOp(World)
         w == step(World)
         old == tape.contents_
         new == w.tape.contents_
     IN /\ IsPrint(op) =>
             /\ w.tape.pos_ = tape.pos_
             /\ DOMAIN new = (DOMAIN old) \cup {tape.pos_}
             /\ new[tape.pos_] = op[1]
             /\ \A i \in (DOMAIN old) \ {tape.pos_} : new[i] = old[i]
        /\ op = <<"L">> => (w.tape.pos_ = tape.pos_ - 1 /\ new = old)
        /\ op = <<"R">> => (w.tape.pos_ = tape.pos_ + 1 /\ new = old)
        /\ (op = <<>> \/ IsConditional(op) \/ IsBranchBack(op)) =>
             (w.tape.pos_ = tape.pos_ /\ new = old)

\* the editable 0 of the print program has just been printed over the 1 of
\* its first step, the cell right of it holding the blank printed over a 0
C23_Witness ==
  /\ sim.stepCount_ > 0
  /\ isRunning(World)
  /\ getCurOp(World) = <<"*", "0">>
  /\ tape.pos_ \in DOMAIN tape.contents_
  /\ tape.contents_[tape.pos_] = "0"
  /\ tape.pos_ + 1 \in DOMAIN tape.contents_
  /\ tape.contents_[tape.pos_ + 1] = "_"

\* the closed vocabulary of ops: empty, 0, 1, _, L, R, B2..B9, D, U and
\* D<sym>, U<sym> for the symbols 0, 1 and _
InVocabulary(op) ==
  \/ op = <<>>
  \/ IsPrint(op)
  \/ op \in {<<"L">>, <<"R">>}
  \/ IsBranchBack(op)
  \/ (IsConditional(op) /\ (Len(op) = 2 => op[2] \in {"0", "1", "_"}))

(***************************************************************************)
(* C24: the step that executes an op outside the vocabulary leaves the      *)
(* tape alone and sets the next position to index + 1 of the same track;    *)
(* the run goes on.                                                         *)
(***************************************************************************)
C24_UnknownOpTakesImplicitStep ==
  (Executing(World) /\ ~InVocabulary(ExecOp(World))) =>
     LET w == step(World)
     IN /\ w.tape = tape
        /\ isRunning(w)
        /\ Lands(w, program.nextTrack_, program.nextTrackPos_ + 1)

\* a slot with the marker added where it holds a fixed op, and with the
\* marker taken away where it holds an editable op (a marker and a token
\* that begins with no marker)
ToggleMarker(slot) ==
  IF slot # <<>> /\ Head(slot) = "*"
    THEN IF Tail(slot) # <<>> /\ Head(Tail(slot)) = "*" THEN slot ELSE Tail(slot)
    ELSE <<"*">> \o slot

\* the tracks with the marker toggled in the slots of the set slots
ToggledTracks(t, slots) ==
  [i \in DOMAIN t |-> [j \in DOMAIN t[i] |->
     IF <<i, j>> \in slots THEN ToggleMarker(t[i][j]) ELSE t[i][j]]]

AllSlots(t) == {<<i, j>> \in (DOMAIN t) \X (1..NUM_OPS_PER_TRACK_bonusMode) : j \in DOMAIN t[i]}

(***************************************************************************)
(* C25: an editable op, the marker * followed by a token, is executed as    *)
(* the token is.  The step from a state, and the step from the same state   *)
(* with the marker added to, or taken from, the slot it executes or every   *)
(* slot of the program, end in the same state but for the markers:          *)
(* positions, tape, step count, speed and the tick of the next step event   *)
(* are the same.                                                            *)
(***************************************************************************)
C25_MarkerMakesNoDifference ==
  Executing(World) =>
     \A slots \in {AllSlots(program.tracks_),
                   {<<program.nextTrack_ + 1, program.nextTrackPos_ + 1>>}} :
        LET t == ToggledTracks(program.tracks_, slots)
        IN step([World EXCEPT !.program.tracks_ = t])
             = [step(World) EXCEPT !.program.tracks_ = t]

\* the editable D1 of a game program has just been taken on a 1
C25_Witness ==
  /\ sim.stepCount_ > 0
  /\ isRunning(World)
  /\ getCurOp(World) = <<"*", "D", "1">>
  /\ getCurSymbol(World) = "1"
  /\ program.nextTrack_ = 1
  /\ ~program.nextPosIsEnd_

\* the step event the simulator waits for
PendingStep(w) ==
  {k \in 1..Len(w.anim.queue_) : w.anim.queue_[k].eventId = w.sim.stepTimerId_}

(***************************************************************************)
(* C26: the step that executes an op schedules the next step after          *)
(* emptyStepTime where the op is empty, after branchTime where it begins    *)
(* with U, D or B, taken or not, and after stepTime otherwise, each of the  *)
(* speeds the simulator has when the step returns.                          *)
(***************************************************************************)
C26_StepDuration ==
  Executing(World) =>
     LET op == ExecOp(World)
         w == step(World)
         speeds == SPEED_CONFIG[w.sim.speeds_]
         time == IF op = <<>> THEN speeds.emptyStepTime
                 ELSE IF Head(op) \in {"U", "D", "B"} THEN speeds.branchTime
                 ELSE speeds.stepTime
     IN /\ isRunning(w)
        /\ \E k \in PendingStep(w) :
             /\ PendingStep(w) = {k}
             /\ w.anim.queue_[k].call = StepCallback
             /\ w.anim.queue_[k].ticks = anim.curTick_ + getNumTicks_(World, time)

\* an empty op has been executed in the frame before, at a speed whose
\* emptyStepTime is not its stepTime
C26_Witness ==
  /\ sim.stepCount_ > 0
  /\ getCurOp(World) = <<>>
  /\ SPEED_CONFIG[sim.speeds_].emptyStepTime # SPEED_CONFIG[sim.speeds_].stepTime
  /\ \E k \in PendingStep(World) :
       anim.queue_[k].ticks =
          anim.curTick_ - 1 + getNumTicks_(World, SPEED_CONFIG[sim.speeds_].emptyStepTime)

\* the times the run has executed the position (track, pos) so far
RunCount(w, track, pos) ==
  IF <<track, pos>> \in DOMAIN w.sim.runCount_ THEN w.sim.runCount_[<<track, pos>>] ELSE 0

\* C27 as stated: with a step limit, a step that executes an op adds one to
\* the run count of its position, and sets the speed to LUDICROUS where the
\* count with this step counted in is above 6, to FAST where it is above 4
\* and not above 6.
C27_SpeedByCountWithThisStep ==
  (Executing(World) /\ sim.stepLimit_ > 0) =>
     LET w == step(World)
         track == program.nextTrack_
         pos == program.nextTrackPos_
         count == RunCount(w, track, pos)
     IN /\ count = RunCount(World, track, pos) + 1
        /\ count > VERY_BORING_REPEAT_COUNT => w.sim.speeds_ = LUDICROUS
        /\ (count > SOMEWHAT_BORING_REPEAT_COUNT /\ count <= VERY_BORING_REPEAT_COUNT)
             => w.sim.speeds_ = FAST

\* C27 amended: with a step limit, a step that executes an op adds one to
\* the run count of its position and to no other, and sets the speed to
\* LUDICROUS where the count before this step is above 6, to FAST where it
\* is above 4 and not above 6, and leaves the speed alone otherwise.
C27_SpeedByCountBeforeThisStep ==
  (Executing(World) /\ sim.stepLimit_ > 0) =>
     LET w == step(World)
         track == program.nextTrack_
         pos == program.nextTrackPos_
         before == RunCount(World, track, pos)
     IN /\ RunCount(w, track, pos) = before + 1
        /\ \A pc \in (DOMAIN sim.runCount_) \ {<<track, pos>>} :
             RunCount(w, pc[1], pc[2]) = RunCount(World, pc[1], pc[2])
        /\ w.sim.speeds_ = IF before > VERY_BORING_REPEAT_COUNT THEN LUDICROUS
                           ELSE IF before > SOMEWHAT_BORING_REPEAT_COUNT THEN FAST
                           ELSE sim.speeds_

\* the seventh execution of a position has just set the speed to FAST
C27_Witness ==
  /\ sim.stepLimit_ > 0
  /\ isRunning(World)
  /\ RunCount(World, program.curTrack_, program.curTrackPos_) = VERY_BORING_REPEAT_COUNT + 1
  /\ sim.speeds_ = FAST
  /\ ~program.nextPosIsEnd_
  /\ <<program.nextTrack_, program.nextTrackPos_>> # <<program.curTrack_, program.curTrackPos_>>
  /\ RunCount(World, program.nextTrack_, program.nextTrackPos_) <= VERY_BORING_REPEAT_COUNT

(***************************************************************************)
(* C28: in a run with the step limit 40, the step that executes a position  *)
(* for the eighth time, its seventh revisit, or a later time, runs at       *)
(* LUDICROUS speed: the next step is scheduled after a time of that speed.  *)
(***************************************************************************)
C28_LudicrousBySeventhRevisit ==
  (/\ Executing(World)
   /\ sim.stepLimit_ = GAME_PROGRAM_STEP_LIMIT
   /\ RunCount(World, program.nextTrack_, program.nextTrackPos_) >= 7) =>
     LET w == step(World)
     IN /\ w.sim.speeds_ = LUDICROUS
        /\ \E k \in PendingStep(w) :
             w.anim.queue_[k].ticks - anim.curTick_
               \in {getNumTicks_(World, SPEED_CONFIG[LUDICROUS].stepTime),
                    getNumTicks_(World, SPEED_CONFIG[LUDICROUS].emptyStepTime),
                    getNumTicks_(World, SPEED_CONFIG[LUDICROUS].branchTime)}

\* a run started at NORMAL speed has executed a position for the eighth
\* time, no position more often, and is at LUDICROUS speed
C28_Witness ==
  /\ sim.stepLimit_ = GAME_PROGRAM_STEP_LIMIT
  /\ isRunning(World)
  /\ RunCount(World, program.curTrack_, program.curTrackPos_) = 8
  /\ \A pc \in DOMAIN sim.runCount_ : sim.runCount_[pc] <= 8
  /\ sim.speeds_ = LUDICROUS
  /\ program.tracks_ = <<LoopingProgram[1], LoopingProgram[2]>>
  /\ anim.curTick_ > 300

(***************************************************************************)
(* C29: within one run the speed never changes to a slower one (the speed   *)
(* settings SLOW, TUTORIAL, NORMAL, FAST, LUDICROUS are numbered from the   *)
(* slowest to the fastest).                                                 *)
(***************************************************************************)
C29_SpeedNeverSlower ==
  [][(isRunning(World) /\ obs'.runs = obs.runs) => sim'.speeds_ >= sim.speeds_]_vars

RECURSIVE NumeralValue(_, _)
\* the number the written cells k, k - 1, ... stand for in binary, cell k
\* the least significant bit
NumeralValue(c, k) ==
  IF k \notin DOMAIN c THEN 0
  ELSE (IF c[k] = "1" THEN 1 ELSE 0) + 2 * NumeralValue(c, k - 1)

\* the written cells are a binary numeral that ends on cell 0: a run of 0s
\* and 1s from some cell left of 0, or 0 itself, up to cell 0, the first a 1
IsNumeral(c) ==
  /\ 0 \in DOMAIN c
  /\ \A i \in DOMAIN c :
       /\ i <= 0
       /\ c[i] \in {"0", "1"}
       /\ \A j \in i..0 : j \in DOMAIN c
       /\ (i - 1 \notin DOMAIN c) => c[i] = "1"

\* the demo program runs, on the tape that was blank when the run began
DemoRuns == program.tracks_ = DemoProgram /\ obs.runs = 1

(***************************************************************************)
(* C30: the demo program 'D0 D_ 0 L B4' over '. 1 R U_ B2', run on a blank  *)
(* tape, never has the end for its next position; its third step prints 1   *)
(* on cell 0, where the head began; and the n-th time control is back at    *)
(* (0,0) with the head on cell 0 the tape holds the binary numeral of n,    *)
(* its least significant bit on cell 0.                                     *)
(***************************************************************************)
C30_DemoCountsInBinary ==
  DemoRuns =>
     /\ ~program.nextPosIsEnd_
     /\ sim.stepLimit_ = 0 => isRunning(World)
     /\ sim.stepCount_ = 3 =>
          /\ program.curTrack_ = 1
          /\ program.curTrackPos_ = 1
          /\ tape.pos_ = 0
          /\ DOMAIN tape.contents_ = {0}
          /\ tape.contents_[0] = "1"
     /\ AtHome(World) =>
          /\ obs.homes >= 1
          /\ IsNumeral(tape.contents_)
          /\ NumeralValue(tape.contents_, 0) = obs.homes

\* control is back at (0,0) for the fourth time, the tape holding 100
C30_Witness ==
  /\ DemoRuns
  /\ AtHome(World)
  /\ obs.homes = 4
  /\ DOMAIN tape.contents_ = (-2)..0
  /\ tape.contents_[-2] = "1"
  /\ tape.contents_[-1] = "0"
  /\ tape.contents_[0] = "0"

(***************************************************************************)
(* C34: whatever start() and stop() calls and frames came before, at most   *)
(* one frame-loop chain is live (anim.loops counts the step closures that    *)
(* requestAnimationFrame holds), so that each host frame runs the body of   *)
(* loop_ once.  Checked under SpecStartStop.                                *)
(***************************************************************************)
C34_SingleFrameLoop == anim.loops <= 1

(***************************************************************************)
(* SpecDrain: the step closure of turing.anim.loop_ taken one iteration of  *)
(* its for loop at a time.  obs.loop holds the closure's position: on while *)
(* the loop runs, and its locals i (counted from 1) and numFrames.          *)
(***************************************************************************)
MaxDrainEventId == 9   \* the drain calls callbacks while eventId_ <= MaxDrainEventId

DrainCallbacks == {NopCallback, [fn |-> "delay", arg |-> 0], AgainCallback}

\* the step closure up to its for loop: throttle, sort, i = 0, numFrames = 0
loopBegin(w, slow) ==
  LET w1 == throttleFrameRate_(w, slow)
      w2 == IF w1.anim.queueDirty_
              THEN [w1 EXCEPT !.anim.queue_ = SortQueue(@), !.anim.queueDirty_ = FALSE]
              ELSE w1
  IN [w2 EXCEPT !.obs.loop = [on |-> TRUE, i |-> 1, numFrames |-> 0]]

\* the for loop goes on: frame = queue_[i] is there and is due
loopGoesOn(w) ==
  /\ w.obs.loop.i <= Len(w.anim.queue_)
  /\ w.anim.queue_[w.obs.loop.i].ticks <= w.anim.curTick_

\* one iteration of the for loop: frame.call(); numFrames++; i++
loopCall(w) ==
  LET w1 == Call(w, w.anim.queue_[w.obs.loop.i])
  IN [w1 EXCEPT !.obs.loop.i = @ + 1, !.obs.loop.numFrames = @ + 1]

\* the step closure after its for loop: splice(0, numFrames); curTick_++
loopEnd(w) ==
  [w EXCEPT !.anim.queue_ = SubSeq(@, w.obs.loop.numFrames + 1, Len(@)),
            !.anim.curTick_ = @ + 1,
            !.obs.loop = [on |-> FALSE, i |-> 1, numFrames |-> 0]]

\* a client schedules a callback between two frames
ClientDelayDrain ==
  /\ ~obs.loop.on
  /\ anim.eventId_ <= MaxClientEventId
  /\ \E callback \in DrainCallbacks, duration \in Durations :
       Commit(Did(delay(World, callback, duration), "other"))

\* a requested animation frame arrives
BeginFrame ==
  /\ anim.loops > 0
  /\ ~anim.stopped_
  /\ ~obs.loop.on
  /\ anim.curTick_ < MaxTick
  /\ anim.eventId_ <= MaxEventId
  /\ Commit(Did(loopBegin(World, FALSE), "other"))

\* the for loop calls the next due frame
DrainCall ==
  /\ obs.loop.on
  /\ loopGoesOn(World)
  /\ anim.eventId_ <= MaxDrainEventId
  /\ Commit(Did(loopCall(World), "other"))

\* the for loop is left and the tick is counted
EndFrame ==
  /\ obs.loop.on
  /\ ~loopGoesOn(World)
  /\ Commit(Did(loopEnd(World), "other"))

NextDrain ==
  \/ ClientDelayDrain
  \/ BeginFrame
  \/ DrainCall
  \/ EndFrame

\* the browser runs the step closure to its end once it has called it
SpecDrain ==
  InitSched /\ [][NextDrain]_vars /\ WF_vars(DrainCall) /\ WF_vars(EndFrame)

RunPlain ==
  /\ obs.runs < MaxRuns
  /\ anim.eventId_ <= MaxEventId
  /\ Commit(Did(run(World, LUDICROUS, "none"), "run"))

NextClients ==
  \/ AnimReset
  \/ ClientDelayPlain
  \/ RunPlain
  \/ Stop
  \/ Pause
  \/ Frame

SpecClients == Init /\ [][NextClients]_vars

(***************************************************************************)
(* C35: the event id the simulator holds, which stop() and pause() pass to  *)
(* turing.anim.cancel, never is the id of a queued event that another       *)
(* client scheduled, also after turing.anim.reset() has made event ids      *)
(* start again at 1.                                                        *)
(***************************************************************************)
C35_HeldIdIsOwnEvent ==
  \A k \in 1..Len(anim.queue_) :
     anim.queue_[k].eventId = sim.stepTimerId_ => anim.queue_[k].call = StepCallback

(***************************************************************************)
(* Pause and resume, checked under Spec                                     *)
(***************************************************************************)
\* the logical run: the program with its current and next position, the
\* tape with its head, and the simulator's counts, speed and continuation
LogicalRun(w) ==
  [program |-> w.program, tape |-> w.tape, program_ |-> w.sim.program_,
   tape_ |-> w.sim.tape_, stepCount_ |-> w.sim.stepCount_,
   stepLimit_ |-> w.sim.stepLimit_, runCount_ |-> w.sim.runCount_,
   speeds_ |-> w.sim.speeds_, doneCallback_ |-> w.sim.doneCallback_,
   doneCalls |-> w.obs.doneCalls]

\* the simulator is in the state Running: a run is active and its step
\* event, the one whose id the simulator holds, is the step event in the queue
Running(w) ==
  /\ w.sim.program_
  /\ w.sim.tape_
  /\ isRunning(w)
  /\ \E k \in 1..Len(w.anim.queue_) :
        /\ StepEvents(w) = {k}
        /\ w.anim.queue_[k].eventId = w.sim.stepTimerId_

(***************************************************************************)
(* C31: on a running simulator pause() followed by resumeIfPaused() leaves  *)
(* the logical run as it was (program positions, tape, head, step count,    *)
(* run counts, speed, continuation); afterwards the simulator is running    *)
(* again with exactly one step event in the queue; and the next step does   *)
(* to the logical run what it would have done without the pair.             *)
(***************************************************************************)
C31_PauseResumeRoundTrip ==
  Running(World) =>
     LET w == resumeIfPaused(pause(World))
     IN /\ LogicalRun(w) = LogicalRun(World)
        /\ Running(w)
        /\ ~w.sim.paused_
        /\ LogicalRun(step(w)) = LogicalRun(step(World))

\* a run that had executed steps was paused and has just been resumed: the
\* one step event in the queue is the one resumeIfPaused() scheduled, due now
C31_Witness ==
  /\ obs.lastOp = "resumeIfPaused"
  /\ Running(World)
  /\ sim.stepCount_ > 0
  /\ sim.stepTimerId_ = anim.eventId_ - 1
  /\ \A k \in StepEvents(World) : anim.queue_[k].ticks = anim.curTick_

\* the step limit in force for PROGRAMS[k]: turing.startGame_ sets
\* GAME_PROGRAM_STEP_LIMIT and turing.setupProgram_ the entry's own, if any
StepLimitOf(k) ==
  IF PROGRAMS[k].stepLimit # 0 THEN PROGRAMS[k].stepLimit ELSE GAME_PROGRAM_STEP_LIMIT

\* turing.Tape.prototype.getIndexOfFirstSymbol_
getIndexOfFirstSymbol_(w) ==
  LET valid == {i \in DOMAIN w.tape.contents_ : w.tape.contents_[i] \notin {"", "_", " "}}
  IN IF valid = {} THEN -1 ELSE SetMin(valid)

\* what turing.Tape.prototype.scanToAndGetSymbol returns; "" stands for the
\* empty string and for undefined alike
symbolAt(w, offset) ==
  LET index == getIndexOfFirstSymbol_(w) + offset
  IN IF index = -1 THEN ""
     ELSE IF index \in DOMAIN w.tape.contents_ THEN w.tape.contents_[index]
     ELSE ""

RECURSIVE checkNextSquare_(_, _, _)
\* turing.checkNextSquare_ and the calls of itself it schedules: TRUE when it
\* ends in successCallback, FALSE when in failureCallback
checkNextSquare_(w, goal, index) ==
  LET symbol == symbolAt(w, index)
      wanted == IF index + 1 \in DOMAIN goal THEN goal[index + 1] ELSE ""
  IN IF index = -1 THEN checkNextSquare_(w, goal, index + 1)
     ELSE IF symbol = "" /\ wanted = "" THEN TRUE
     ELSE IF symbol # wanted THEN FALSE
     ELSE checkNextSquare_(w, goal, index + 1)

\* turing.checkTape_
checkTape_(w, goal) == checkNextSquare_(w, goal, -1)

(***************************************************************************)
(* SpecPuzzles: each puzzle of the catalog set up with its tape and its     *)
(* correct program and run at the step limit in force for it, as the game   *)
(* does when it plays the solved programs.                                  *)
(***************************************************************************)
Puzzles == 2..Len(PROGRAMS)

InitPuzzles ==
  \E k \in Puzzles :
     LET w0 == animStart(animReset(Constructed))
         w1 == setStringDone(w0, PROGRAMS[k].tape)
         w2 == change(w1, assemble_(PROGRAMS[k].source).correct)
         w3 == run(setStepLimit(w2, StepLimitOf(k)), FAST, "note")
         w == [w3 EXCEPT !.obs.curProgram = k]
     IN /\ anim = w.anim
        /\ sim = w.sim
        /\ program = w.program
        /\ tape = w.tape
        /\ game = w.game
        /\ obs = w.obs

NextPuzzles ==
  \/ RunFrame

SpecPuzzles == InitPuzzles /\ [][NextPuzzles]_vars

\* the run of the puzzle's program is over: stop() has called its continuation
RunIsOver == obs.runs = 1 /\ obs.doneCalls[1] = 1

(***************************************************************************)
(* C32: for every puzzle of the catalog, the run of its correct program     *)
(* from its initial tape, head on the middle cell of the string, under the  *)
(* step limit in force for it, comes to an end; it ends because the next    *)
(* position is the end and not because the step limit is passed; and the    *)
(* tape then passes the check of the game against the puzzle's goal.        *)
(***************************************************************************)
C32_CorrectProgramsSolve ==
  obs.curProgram \in Puzzles =>
     /\ anim.curTick_ >= MaxRunTick => RunIsOver
     /\ RunIsOver =>
          /\ program.nextPosIsEnd_
          /\ sim.stepCount_ <= sim.stepLimit_
          /\ checkTape_(World, PROGRAMS[obs.curProgram].goal)

\* the run of the last puzzle, the one with its own step limit, is over after
\* more steps than the step limit of the other puzzles allows
C32_Witness ==
  /\ obs.curProgram = Len(PROGRAMS)
  /\ RunIsOver
  /\ sim.stepCount_ > GAME_PROGRAM_STEP_LIMIT
  /\ sim.stepLimit_ = PROGRAMS[obs.curProgram].stepLimit
  /\ checkTape_(World, PROGRAMS[obs.curProgram].goal)

(***************************************************************************)
(* Clickable operations (turing.Track.prototype.cycleOp)                    *)
(***************************************************************************)
\* turing.COND_BRANCH_DOWN_OPS_
COND_BRANCH_DOWN_OPS_ == << <<"D", "0">>, <<"D", "1">>, <<"D", "_">> >>

\* turing.COND_BRANCH_UP_OPS_
COND_BRANCH_UP_OPS_ == << <<"U", "0">>, <<"U", "1">>, <<"U", "_">> >>

\* turing.LOOP_BRANCH_OPS_
LOOP_BRANCH_OPS_ == << <<"B", "2">>, <<"B", "3">>, <<"B", "4">> >>

\* turing.PRINT_OPS_
PRINT_OPS_ == << <<"0">>, <<"1">> >>

\* turing.MOVE_OPS_
MOVE_OPS_ == << <<"L">>, <<"R">> >>

\* a getNextValue that has no value after the last one of arr
getNextValue_noWrap(arr, value) ==
  LET found == {k \in 1..Len(arr) : arr[k] = value}
      i == IF found = {} THEN Len(arr) + 1 ELSE SetMin(found)
  IN IF i >= Len(arr) THEN <<>> ELSE arr[i + 1]

\* turing.util.getNextValue: the value after `value` in arr, the first one
\* after the last; null, written <<>>, if value is not in arr
getNextValue(arr, value) ==
  LET found == {k \in 1..Len(arr) : arr[k] = value}
      i == IF found = {} THEN Len(arr) + 1 ELSE SetMin(found)
  IN IF i = Len(arr) + 1 THEN <<>>
     ELSE IF i = Len(arr) THEN arr[1] ELSE arr[i + 1]

\* a || b for ops: the first one that is not null or empty
OrElse(a, b) == IF a # <<>> THEN a ELSE b

\* turing.Track.prototype.getOp on track `track` (both counted from 0);
\* undefined reads as the empty op
getOp(w, track, i) ==
  IF track + 1 \in DOMAIN w.program.tracks_ /\ i + 1 \in DOMAIN w.program.tracks_[track + 1]
    THEN w.program.tracks_[track + 1][i + 1]
    ELSE <<>>

\* turing.Track.prototype.cycleOp on track `track`
cycleOp(w, track, i) ==
  LET op == getOp(w, track, i)
  IN IF ~w.program.interactive_ THEN w
     ELSE IF op = <<>> \/ op[1] # "*" THEN w
     ELSE LET o == Tail(op)
              next == OrElse(getNextValue(COND_BRANCH_UP_OPS_, o),
                      OrElse(getNextValue(COND_BRANCH_DOWN_OPS_, o),
                      OrElse(getNextValue(LOOP_BRANCH_OPS_, o),
                      OrElse(getNextValue(PRINT_OPS_, o),
                      OrElse(getNextValue(MOVE_OPS_, o), o)))))
          IN [w EXCEPT !.program.tracks_[track + 1][i + 1] = <<"*">> \o next]

\* the touchstart handler of an op (opTouchHandlers_[i]): opPushedIn_[i] is
\* set and popOutOp(i, true) cycles the op; the frames that animate the
\* button only set styles
touchOp(w, track, i) == cycleOp(w, track, i)

\* the slots of a program: tracks and indices, counted from 0
Slots(ops) == {s \in (0..(Len(ops) - 1)) \X (0..(NUM_OPS_PER_TRACK_normalMode - 1)) :
                 s[2] < Len(ops[s[1] + 1])}

\* a slot is editable if its op begins with '*'
Editable(op) == op # <<>> /\ op[1] = "*"

(***************************************************************************)
(* Clicking through the puzzles: each puzzle's incorrect program is shown   *)
(* (setupProgram_), the tracks are made interactive or not, and ops are     *)
(* touched.                                                                 *)
(***************************************************************************)
InitCycle ==
  \E k \in Puzzles :
    LET w == [change(Constructed, assemble_(PROGRAMS[k].source).incorrect)
                EXCEPT !.obs.curProgram = k]
    IN /\ anim = w.anim
       /\ sim = w.sim
       /\ program = w.program
       /\ tape = w.tape
       /\ game = w.game
       /\ obs = w.obs

SetInteractive ==
  \E b \in BOOLEAN :
    /\ program.interactive_ # b
    /\ Commit(Did(setInteractive(World, b), "setInteractive"))

TouchOp ==
  \E s \in Slots(program.tracks_) :
    /\ Commit(Did(touchOp(World, s[1], s[2]), "touchOp"))

NextCycle ==
  \/ SetInteractive
  \/ TouchOp

SpecCycle == InitCycle /\ [][NextCycle]_vars

RECURSIVE CycleN(_, _, _, _)
\* n calls of cycleOp on one slot
CycleN(w, track, i, n) ==
  IF n = 0 THEN w ELSE CycleN(cycleOp(w, track, i), track, i, n - 1)

\* the tracks as the simulator reads them: each op without its marker
Stripped(ops) == [t \in DOMAIN ops |-> [i \in DOMAIN ops[t] |-> StripMarker(ops[t][i])]]

\* C38: for every puzzle, the incorrect and the correct program differ only
\* at slots that are editable ('*') in the incorrect program; at each
\* editable slot, whatever has been clicked so far, at most two more calls of
\* cycleOp on the interactive track bring the correct op; and cycleOp leaves
\* a slot that is not editable as it is.
C38_CycleReachesCorrect ==
  obs.curProgram \in Puzzles =>
    LET ops == assemble_(PROGRAMS[obs.curProgram].source)
        lit == setInteractive(World, TRUE)
    IN /\ Slots(ops.incorrect) = Slots(ops.correct)
       /\ Slots(program.tracks_) = Slots(ops.incorrect)
       /\ \A s \in Slots(ops.incorrect) :
            LET inc == ops.incorrect[s[1] + 1][s[2] + 1]
                cor == ops.correct[s[1] + 1][s[2] + 1]
            IN IF Editable(inc)
                 THEN /\ Editable(getOp(World, s[1], s[2]))
                      /\ \E n \in 0..(Len(LOOP_BRANCH_OPS_) - 1) :
                           StripMarker(getOp(CycleN(lit, s[1], s[2], n), s[1], s[2])) = cor
                 ELSE /\ inc = cor
                      /\ getOp(World, s[1], s[2]) = inc
                      /\ cycleOp(lit, s[1], s[2]) = lit

\* touches have turned the incorrect program of the puzzle with six editable
\* slots (PROGRAMS[9] of the source) into its correct program
C38_Witness ==
  /\ obs.curProgram = 10
  /\ obs.lastOp = "touchOp"
  /\ program.interactive_
  /\ Stripped(program.tracks_) = assemble_(PROGRAMS[obs.curProgram].source).correct
  /\ Stripped(assemble_(PROGRAMS[obs.curProgram].source).incorrect)
       # assemble_(PROGRAMS[obs.curProgram].source).correct

(***************************************************************************)
(* SpecPlay: one level of the game from the moment turing.setupProgram_ has *)
(* shown the incorrect program and called makeInteractive_(0, 500) to the   *)
(* call of turing.checkTape_.  The player presses and releases the play     *)
(* button and touches ops; these inputs come at the ticks of InputTicks.    *)
(***************************************************************************)
\* PROGRAMS[1], [3] and [4] of the source: one or two editable slots each
PlayPuzzles == {2, 4, 5}

\* ticks at which the player acts: at once when the play button has popped
\* out, after the ops have lit up (500 ms), and after a run started by an
\* early click has begun (600 ms after the click)
InputTicks == {1, 35, 45}

InitPlay ==
  \E k \in PlayPuzzles :
     LET w0 == animStart(animReset(Constructed))
         w1 == setStepLimit(w0, StepLimitOf(k))
         w2 == setStringDone(w1, PROGRAMS[k].tape)
         w3 == change([w2 EXCEPT !.obs.curProgram = k],
                      assemble_(PROGRAMS[k].source).incorrect)
         w == makeInteractive_(w3, 0, 500)
     IN /\ anim = w.anim
        /\ sim = w.sim
        /\ program = w.program
        /\ tape = w.tape
        /\ game = w.game
        /\ obs = w.obs

MouseDownPlay ==
  /\ anim.curTick_ \in InputTicks
  /\ game.playCallback_
  /\ ~game.playIsBeingPushedNow_
  /\ Commit(Did(onMouseDownPlay_(World), "onMouseDownPlay_"))

MouseUpPlay ==
  /\ anim.curTick_ \in InputTicks
  /\ game.playIsBeingPushedNow_
  /\ Commit(Did(onMouseUpPlay_(World), "onMouseUpPlay_"))

MouseOutPlay ==
  /\ anim.curTick_ \in InputTicks
  /\ game.playIsBeingPushedNow_
  /\ Commit(Did(onMouseOutPlay_(World), "onMouseOutPlay_"))

PlayTouchOp ==
  /\ anim.curTick_ \in InputTicks
  /\ \E s \in Slots(program.tracks_) :
       /\ Editable(getOp(World, s[1], s[2]))
       /\ Commit(Did(touchOp(World, s[1], s[2]), "touchOp"))

NextPlay ==
  \/ RunFrame
  \/ MouseDownPlay
  \/ MouseUpPlay
  \/ MouseOutPlay
  \/ PlayTouchOp

SpecPlay == InitPlay /\ [][NextPlay]_vars

\* the play button has been clicked and the run it starts has not begun
RunPending(w) ==
  \E k \in 1..Len(w.anim.queue_) : w.anim.queue_[k].call = RunProgramCallback

\* C33: from the click on the play button to the end of the run it starts,
\* the tracks are not interactive: touching an op changes nothing, whenever
\* the click came relative to the callback that lights the clickable ops.
C33_NoTouchChangesOpWhileRunning ==
  (RunPending(World) \/ isRunning(World)) =>
     /\ ~program.interactive_
     /\ \A s \in Slots(program.tracks_) : touchOp(World, s[1], s[2]) = World

(***************************************************************************)
(* The sleep timer and the start of the game                                *)
(***************************************************************************)
\* turing.startSleepTimer_
startSleepTimer_(w) ==
  [w EXCEPT !.game.sawMouseMove_ = FALSE,
            !.game.listening = TRUE,
            !.game.sleepTimerId_ = TRUE]

\* turing.mouseMoveListener_
mouseMoveListener_(w) ==
  LET w1 == [w EXCEPT !.game.sawMouseMove_ = TRUE]
  IN IF w1.anim.stopped_
       THEN [resumeIfPaused(animStart(w1)) EXCEPT !.game.sleepTimerId_ = TRUE]
       ELSE w1

\* turing.touchStartListener_; setTouchDevice changes how ops are drawn
touchStartListener_(w) == mouseMoveListener_(w)

\* turing.sleepIfInactive_, the handler of the timeout
sleepIfInactive_(w) ==
  LET w1 == IF isRunning(w) /\ ~hasStepLimit(w) /\ ~w.game.sawMouseMove_
              THEN [animStop(pause(w)) EXCEPT !.game.sleepTimerId_ = FALSE]
              ELSE [w EXCEPT !.game.sleepTimerId_ = TRUE]
  IN [w1 EXCEPT !.game.sawMouseMove_ = FALSE]

\* turing.destroySleepTimer_
destroySleepTimer_(w) ==
  [w EXCEPT !.game.listening = FALSE, !.game.sleepTimerId_ = FALSE]

\* turing.startDemo_: the overlay takes the click that starts the game
startDemo_(w) ==
  LET w1 == startSleepTimer_([w EXCEPT !.game.overlay = TRUE])
      w2 == change(setInteractive(w1, FALSE), assemble_(PROGRAMS[1].source).correct)
  IN run(w2, FAST, "none")

\* turing.startGame_; ready is what isImageReady_(deferredSprite) returns
startGame_(w, ready) ==
  LET w1 == setStepLimit(stop([w EXCEPT !.game.overlay = FALSE]), GAME_PROGRAM_STEP_LIMIT)
  IN IF ready
       THEN delay(destroySleepTimer_(w1), SetupProgramCallback, 500)
       ELSE delay([w1 EXCEPT !.game.loading = TRUE, !.game.loaded = FALSE],
                  ProgressCallback, 300)

\* deferredSprite.onload, as turing.startGame_ sets it
onload(w) ==
  setupProgram_(destroySleepTimer_([w EXCEPT !.game.loaded = TRUE,
                                             !.game.loading = FALSE]),
                w.obs.curProgram)

(***************************************************************************)
(* SpecSleep: the doodle from turing.init with the main sprite ready (the   *)
(* demo runs, the sleep timer is set) to the level the click on the overlay *)
(* sets up.  The timeout, the mouse, the click and the sprite's load come   *)
(* at the ticks of SleepTicks: frames come as the browser grants them, so   *)
(* the 20 s of the timeout may pass within any number of ticks.             *)
(***************************************************************************)
SleepTicks == {3, 4}

\* the programs turing.state_.restore() may name as the current one
SleepPuzzles == {2, 13}

InitSleep ==
  \E k \in SleepPuzzles :
     LET w0 == animStart(animReset(Constructed))
         w == startDemo_([w0 EXCEPT !.obs.curProgram = k])
     IN /\ anim = w.anim
        /\ sim = w.sim
        /\ program = w.program
        /\ tape = w.tape
        /\ game = w.game
        /\ obs = w.obs

\* one requested animation frame arrives: the step closure of loop_
SleepFrame ==
  /\ anim.loops > 0
  /\ IF anim.stopped_
       THEN Commit(Did([World EXCEPT !.anim.loops = @ - 1], "other"))
       ELSE /\ anim.curTick_ < MaxRunTick
            /\ Commit(Did(loop_(World, FALSE), "other"))

SleepTimeout ==
  /\ anim.curTick_ \in SleepTicks
  /\ game.sleepTimerId_
  /\ Commit(Did(sleepIfInactive_(World), "sleepIfInactive_"))

MouseMove ==
  /\ anim.curTick_ \in SleepTicks
  /\ game.listening
  /\ anim.stopped_ => (anim.loops < MaxLoops /\ anim.eventId_ <= MaxEventId)
  /\ Commit(Did(mouseMoveListener_(World), "mouseMoveListener_"))

TouchStart ==
  /\ anim.curTick_ \in SleepTicks
  /\ game.listening
  /\ anim.stopped_ => (anim.loops < MaxLoops /\ anim.eventId_ <= MaxEventId)
  /\ Commit(Did(touchStartListener_(World), "touchStartListener_"))

ClickOverlay ==
  /\ anim.curTick_ \in SleepTicks
  /\ game.overlay
  /\ \E ready \in BOOLEAN : Commit(Did(startGame_(World, ready), "startGame_"))

SpriteLoaded ==
  /\ anim.curTick_ \in SleepTicks
  /\ game.loading
  /\ Commit(Did(onload(World), "onload"))

NextSleep ==
  \/ SleepFrame
  \/ SleepTimeout
  \/ MouseMove
  \/ TouchStart
  \/ ClickOverlay
  \/ SpriteLoaded

SpecSleep == InitSleep /\ [][NextSleep]_vars

\* C39: whenever the scheduler is stopped with events pending, the mousemove
\* and touchstart listeners that wake it are registered.
C39_WakeListenerWhileAsleep ==
  (anim.stopped_ /\ anim.queue_ # <<>>) => game.listening

(***************************************************************************)
(* SpecTrace: the incorrect program of a puzzle run on the puzzle's tape    *)
(* under the game's step limit, at each speed setting of TraceSpeeds,       *)
(* while frames arrive late or on time and the throttle changes the tick    *)
(* period.                                                                  *)
(***************************************************************************)
\* PROGRAMS[4] of the source, whose incorrect program ends, and PROGRAMS[11],
\* whose incorrect program loops until the step limit stops it
TracePuzzles == {5, 12}

TraceSpeeds == {SLOW, NORMAL, LUDICROUS}

InitTrace ==
  \E k \in TracePuzzles, speed \in TraceSpeeds :
     LET w0 == animStart(animReset(Constructed))
         w1 == setStepLimit(setStringDone(w0, PROGRAMS[k].tape), StepLimitOf(k))
         w2 == change([w1 EXCEPT !.obs.curProgram = k],
                      assemble_(PROGRAMS[k].source).incorrect)
         w == run(w2, speed, "none")
     IN /\ anim = w.anim
        /\ sim = w.sim
        /\ program = w.program
        /\ tape = w.tape
        /\ game = w.game
        /\ obs = w.obs

NextTrace ==
  \/ LateFrame

SpecTrace == InitTrace /\ [][NextTrace]_vars

\* the logical state of a run: the program and the position in it, the tape
\* and the head, the steps counted, the visits counted, and whether it runs
Trace(w) ==
  [program |-> w.program, tape |-> w.tape,
   stepCount_ |-> w.sim.stepCount_, stepLimit_ |-> w.sim.stepLimit_,
   runCount_ |-> w.sim.runCount_, running |-> isRunning(w)]

\* w with everything that is time put to one value: the speed, the tick
\* period and throttle state, the tick, and the queue holding only the step
\* event of the run, if it runs
Timeless(w) ==
  LET a == animStart(AnimInit)
      w1 == [w EXCEPT !.anim = a, !.sim.speeds_ = NORMAL]
  IN IF isRunning(w)
       THEN [delay(w1, StepCallback, 0) EXCEPT !.sim.stepTimerId_ = a.eventId_]
       ELSE w1

\* C37: what a run does next depends on its logical state alone.  Every
\* frame leaves the logical state as it is or takes it to the one that
\* step() makes of it with the speed, the tick period, the throttle state
\* and the tick all put to fixed values; runs that start alike therefore go
\* through the same operations, positions and tapes whatever their speed
\* setting and the timing of their frames.
C37_TraceIgnoresTime ==
  [][\/ Trace(World)' = Trace(World)
     \/ Trace(World)' = Trace(step(Timeless(World)))]_vars

\* a run has gone on into frames of a slowed-down tick period, has been put
\* to FAST as a boring loop, and has been stopped by the step limit
C37_Witness ==
  /\ obs.curProgram = 12
  /\ anim.msPerFrame_ > MAX_FPS_MS_
  /\ sim.speeds_ = FAST
  /\ ~isRunning(World)
  /\ sim.stepCount_ > sim.stepLimit_
====
